---- MODULE Spec2Model ----
(***************************************************************************)
(* A model of the private state-transition engine of the ledger: the       *)
(* execution validator (nssa/core/src/program.rs), the privacy-preserving  *)
(* circuit (nssa/program_methods/guest/src/bin/privacy_preserving_circuit  *)
(* .rs) and the nullifier set (common/src/nullifier_sparse_merkle_tree.rs).*)
(*                                                                         *)
(* Each component has its own specification over the shared variables:     *)
(*   SpecValidator  validate_execution applied to bounded inputs           *)
(*   SpecCircuit    one pass of the circuit's main over bounded inputs     *)
(*   SpecTree       insert and query calls on a NullifierSparseMerkleTree  *)
(*   SpecMerkle     insert and path queries on a MerkleTree                *)
(*   SpecNote       Commitment::new and Ciphertext::new / decrypt          *)
(*   SpecKeys       key agreement, key derivation and chain indexes        *)
(*   SpecState      public transactions applied to a V01State              *)
(*   SpecBlob       blobs and writes of a PrivateSCState                   *)
(*   SpecNode       NodeCore's chain updater and a reader of its storage   *)
(***************************************************************************)
EXTENDS Integers, Sequences, FiniteSets, TLC

VARIABLES
    overflow_checks,          \* build profile: are integer overflow checks compiled in
    v_pc,                     \* validator harness: "idle" | "returned"
    v_pre_states,             \* argument pre_states of the last validate_execution call
    v_post_states,            \* argument post_states
    v_executing_program_id,   \* argument executing_program_id
    v_result,                 \* "true" | "false" | "panic" (the call did not return)
    curr_root,                \* NullifierSparseMerkleTree.curr_root: Option of a root
    tree,                     \* NullifierSparseMerkleTree.tree: the roots stored in the database
    leafs,                    \* NullifierSparseMerkleTree.leafs: block id -> tx id -> nullifier id
    t_call,                   \* the last call on the tree: [op, hashes]
    t_result,                 \* what that call returned
    inserted,                 \* history: the hashes of the inserts that returned Ok
    c_pc,                     \* circuit: "start" | "committed" | "panicked"
    c_input,                  \* the PrivacyPreservingCircuitInput read by main
    c_result,                 \* [panic, output]: the panic message or the committed output
    index_map,                \* MerkleTree.index_map: value -> index of its leaf
    node_map,                 \* MerkleTree.node_map: index of a node -> node
    capacity,                 \* MerkleTree.capacity: the number of leaves, a power of two
    m_call,                   \* the last call on the MerkleTree: [op, value]
    m_result,                 \* what that call returned
    m_created,                \* history: the argument of MerkleTree::with_capacity
    m_inserted,               \* history: the values handed to insert, in order
    n_call,                   \* the last call on a commitment or a ciphertext: [op, ...]
    n_result,                 \* what that call returned
    k_call,                   \* the last call on a key holder or a chain index: [op, ...]
    k_result,                 \* what that call returned
    key_map,                  \* the key nodes derived so far: chain index -> node
    public_state,             \* V01State.public_state: address -> Account
    s_tx,                     \* the last PublicTransaction handed to the state
    s_result,                 \* what transition_from_public_transaction returned
    s_calls,                  \* the number of transactions handed to the state
    s_applied,                \* history: the transactions the state has applied
    private_state,            \* PrivateSCState: slot -> PrivateDataBlob
    b_call,                   \* the last call on a blob or a private state: [op, ...]
    b_result,                 \* what that call returned
    sequencer_chain,          \* the blocks the sequencer serves after the genesis block
    storage,                  \* NodeCore.storage: the NodeChainStore behind the mutex
    storage_lock,             \* the holder of the storage mutex: "none" | "updater" | "reader"
    curr_height,              \* NodeCore.curr_height
    updater,                  \* the updater task: [pc, next_block, block, before]
    reader,                   \* a caller of transfer_utxo_private: [pc, hash, commitment_in]
    inserted_blocks           \* history: the ids of the blocks whose insert returned Ok

validatorVars == <<v_pc, v_pre_states, v_post_states, v_executing_program_id, v_result>>

treeVars == <<curr_root, tree, leafs, t_call, t_result, inserted>>

circuitVars == <<c_pc, c_input, c_result>>

merkleVars == <<index_map, node_map, capacity, m_call, m_result, m_created, m_inserted>>

noteVars == <<n_call, n_result>>

keyVars == <<k_call, k_result, key_map>>

stateVars == <<public_state, s_tx, s_result, s_calls, s_applied>>

blobVars == <<private_state, b_call, b_result>>

nodeVars == <<sequencer_chain, storage, storage_lock, curr_height, updater, reader,
              inserted_blocks>>

vars == <<overflow_checks, validatorVars, treeVars, circuitVars, merkleVars, noteVars, keyVars, stateVars, blobVars, nodeVars>>

(***************************************************************************)
(* Bounds of the model.                                                    *)
(***************************************************************************)
\* program ids are 1..MaxProgramId; 0 is DEFAULT_PROGRAM_ID
MaxProgramId == 2
\* u128 values (balances, nonces) are modelled U128Bits wide
U128Bits == 1
\* account data is a byte string of length at most MaxDataLen
MaxDataLen == 1
\* the validator is applied to lists of at most MaxLen accounts
MaxLen == 2
\* nullifier hashes are 1..MaxHash
MaxHash == 2
\* block, transaction and nullifier ids of a NullifierTreeInput
MaxBlockId == 2
MaxTxId == 1
MaxNullifierId == 1
\* insert_items and the batched queries take at most MaxBatch items
MaxBatch == 2
\* the circuit is given program outputs of at most MaxAccounts accounts
MaxAccounts == 2
\* nullifier secret keys are 1..MaxNsk
MaxNsk == 2
\* the values stored in a MerkleTree are <<1>> .. <<MaxValue>>
MaxValue == 5
\* a MerkleTree is made by with_capacity(0) .. with_capacity(MaxInitialCapacity)
MaxInitialCapacity == 4

\* the largest number of insert calls on a MerkleTree
MaxInserts == 5

\* PRIVATE_BLOB_SIZE (32 in private_state_storage.rs), scaled
PRIVATE_BLOB_SIZE == 2

\* the longest byte sequence handed to a blob or written to a private state
MaxBytesLen == 5

\* the largest slot of a private state at the start and of a rewrite
MaxSlot == 1

MaxSharedSecret == 2

MaxOutputIndex == 1

\* a hexadecimal digit has 4 bits; the model scales it down, and with it
\* the byte (two digits) and the u32 (four bytes)
HexDigitBits == 1

\* the scalars of the model are taken modulo MaxScalar + 1
MaxScalar == 6

MaxSeed == 2

MaxChildIndex == 1

MaxDepth == 2

MaxStringLen == 8

MaxAddress == 2

MaxCalls == 2

MaxGenesis == 2

\* the id of the genesis block the sequencer reports
GenesisId == 1

\* the sequencer serves at most MaxHeight blocks after the genesis block,
\* MaxStartup of them before NodeCore is constructed
MaxHeight == 3
MaxStartup == 1

\* a block carries at most MaxBlockTxs transactions
MaxBlockTxs == 2

(***************************************************************************)
(* Option and Result values.                                               *)
(***************************************************************************)
None == <<>>

Some(x) == <<x>>

Ok(value) == [is_err |-> FALSE, err |-> "", value |-> value]

Err(message) == [is_err |-> TRUE, err |-> message, value |-> <<>>]

(***************************************************************************)
(* Accounts (nssa_core::account).                                          *)
(***************************************************************************)
DEFAULT_PROGRAM_ID == 0

U128Modulus == 2 ^ U128Bits

ProgramIds == 1 .. MaxProgramId

DataValues == UNION {[1 .. n -> {1}] : n \in 0 .. MaxDataLen}

Account ==
    [program_owner : 0 .. MaxProgramId,
     balance : 0 .. U128Modulus - 1,
     data : DataValues,
     nonce : 0 .. U128Modulus - 1]

\* Account::default(): all zero, empty data
AccountDefault ==
    [program_owner |-> DEFAULT_PROGRAM_ID, balance |-> 0, data |-> <<>>, nonce |-> 0]

HexRadix == 2 ^ HexDigitBits

\* the number of values of a byte
ByteModulus == HexRadix * HexRadix

\* the number of values of a u32
U32Modulus == ByteModulus * ByteModulus * ByteModulus * ByteModulus

RECURSIVE le_bytes(_, _)
\* to_le_bytes of an unsigned integer of `width` bytes
le_bytes(n, width) ==
    IF width = 0 THEN <<>>
    ELSE <<n % ByteModulus>> \o le_bytes(n \div ByteModulus, width - 1)

RECURSIVE from_le_bytes(_)
\* from_le_bytes of a byte string
from_le_bytes(bytes) ==
    IF bytes = <<>> THEN 0 ELSE Head(bytes) + ByteModulus * from_le_bytes(Tail(bytes))

\* Account::to_bytes with the nonce left out
Account_to_bytes_without_nonce(account) ==
    le_bytes(account.program_owner, 4) \o le_bytes(account.balance, 16) \o le_bytes(Len(account.data), 4) \o account.data

\* Account::to_bytes: the fixed fields in little-endian order, then the data
\* behind its length in four little-endian bytes
Account_to_bytes(account) ==
    le_bytes(account.program_owner, 4)
        \o le_bytes(account.balance, 16)
        \o le_bytes(account.nonce, 16)
        \o le_bytes(Len(account.data), 4)
        \o account.data

\* Cursor::read_exact: the next n bytes, or an error when fewer are left
read_exact(buffer, position, n) ==
    IF position + n - 1 > Len(buffer)
    THEN Err("failed to fill whole buffer")
    ELSE Ok([bytes |-> SubSeq(buffer, position, position + n - 1), position |-> position + n])

\* Account::from_cursor: the inverse reading of Account::to_bytes; the bytes
\* behind the account stay unread
Account_from_cursor(buffer) ==
    LET owner == read_exact(buffer, 1, 4) IN
    IF owner.is_err THEN owner ELSE
    LET balance == read_exact(buffer, owner.value.position, 16) IN
    IF balance.is_err THEN balance ELSE
    LET nonce == read_exact(buffer, balance.value.position, 16) IN
    IF nonce.is_err THEN nonce ELSE
    LET length == read_exact(buffer, nonce.value.position, 4) IN
    IF length.is_err THEN length ELSE
    LET data == read_exact(buffer, length.value.position, from_le_bytes(length.value.bytes)) IN
    IF data.is_err THEN data ELSE
    Ok([program_owner |-> from_le_bytes(owner.value.bytes),
        balance |-> from_le_bytes(balance.value.bytes),
        data |-> data.value.bytes,
        nonce |-> from_le_bytes(nonce.value.bytes)])

AccountWithMetadata(account, is_authorized, account_id) ==
    [account |-> account, is_authorized |-> is_authorized, account_id |-> account_id]

(***************************************************************************)
(* validate_execution (nssa/core/src/program.rs).                          *)
(***************************************************************************)
\* Iterator::sum over u128: a left fold from 0.  An overflowing addition
\* panics when overflow checks are compiled in and wraps otherwise.  The
\* result is a natural number, or -1 for a panic.
RECURSIVE u128_sum_from(_, _, _)
u128_sum_from(acc, balances, i) ==
    IF i > Len(balances) THEN acc
    ELSE IF acc + balances[i] >= U128Modulus /\ overflow_checks THEN -1
    ELSE u128_sum_from((acc + balances[i]) % U128Modulus, balances, i + 1)

u128_sum(balances) == u128_sum_from(0, balances, 1)

\* validate_pair without rule 2
validate_pair_any_nonce(pre, post, executing_program_id) ==
    /\ ~ (pre.account.program_owner # post.program_owner /\ pre.account # AccountDefault)
    /\ ~ (post.balance < pre.account.balance
            /\ pre.account.program_owner # executing_program_id)
    /\ ~ (pre.account.data # post.data
            /\ (executing_program_id # pre.account.program_owner
                  \/ executing_program_id # post.program_owner))

\* validate_pair with rule 3 looking at the owner of the pre-state only
validate_pair_default_owner(pre, post, executing_program_id) ==
    /\ ~ (pre.account.nonce # post.nonce)
    /\ ~ (pre.account.program_owner # post.program_owner
            /\ pre.account.program_owner # DEFAULT_PROGRAM_ID)
    /\ ~ (post.balance < pre.account.balance
            /\ pre.account.program_owner # executing_program_id)
    /\ ~ (pre.account.data # post.data
            /\ (executing_program_id # pre.account.program_owner
                  \/ executing_program_id # post.program_owner))

\* validate_pair without rule 4
validate_pair_any_decrease(pre, post, executing_program_id) ==
    /\ ~ (pre.account.nonce # post.nonce)
    /\ ~ (pre.account.program_owner # post.program_owner /\ pre.account # AccountDefault)
    /\ ~ (pre.account.data # post.data
            /\ (executing_program_id # pre.account.program_owner
                  \/ executing_program_id # post.program_owner))

\* validate_pair with rule 5 rejecting only when neither owner is the program
validate_pair_either_owner(pre, post, executing_program_id) ==
    /\ ~ (pre.account.nonce # post.nonce)
    /\ ~ (pre.account.program_owner # post.program_owner /\ pre.account # AccountDefault)
    /\ ~ (post.balance < pre.account.balance
            /\ pre.account.program_owner # executing_program_id)
    /\ ~ (pre.account.data # post.data
            /\ (executing_program_id # pre.account.program_owner
                  /\ executing_program_id # post.program_owner))

\* rules 2 to 5 for the pair at one position: TRUE when the loop body does
\* not return false
validate_pair(pre, post, executing_program_id) ==
    /\ ~ (pre.account.nonce # post.nonce)
    /\ ~ (pre.account.program_owner # post.program_owner /\ pre.account # AccountDefault)
    /\ ~ (post.balance < pre.account.balance
            /\ pre.account.program_owner # executing_program_id)
    /\ ~ (pre.account.data # post.data
            /\ (executing_program_id # pre.account.program_owner
                  \/ executing_program_id # post.program_owner))

validate_execution(pre_states, post_states, executing_program_id) ==
    IF Len(pre_states) # Len(post_states) THEN "false"
    ELSE IF \E i \in 1 .. Len(pre_states) :
                ~ validate_pair(pre_states[i], post_states[i], executing_program_id)
         THEN "false"
    ELSE LET total_balance_pre_states ==
                 u128_sum([i \in 1 .. Len(pre_states) |-> pre_states[i].account.balance])
             total_balance_post_states ==
                 u128_sum([i \in 1 .. Len(post_states) |-> post_states[i].balance])
         IN  IF total_balance_pre_states = -1 THEN "panic"
             ELSE IF total_balance_post_states = -1 THEN "panic"
             ELSE IF total_balance_pre_states # total_balance_post_states THEN "false"
             ELSE "true"

(***************************************************************************)
(* The monotree library, by its contract: a root stands for the set of     *)
(* keys stored under it (every leaf equals its key here).                  *)
(***************************************************************************)
Monotree_keys(root) == IF root = None THEN {} ELSE root[1]

Monotree_insert(root, key) == Some(Monotree_keys(root) \cup {key})

RECURSIVE Monotree_inserts(_, _, _)
Monotree_inserts(root, keys, i) ==
    IF i > Len(keys) THEN root
    ELSE Monotree_inserts(Monotree_insert(root, keys[i]), keys, i + 1)

Monotree_get(root, key) ==
    IF key \in Monotree_keys(root) THEN Some(key) ELSE None

\* a proof is generated for a key on the path of a stored leaf only
Monotree_get_merkle_proof(root, key) ==
    IF key \in Monotree_keys(root) THEN Some([root |-> root, key |-> key]) ELSE None

(***************************************************************************)
(* NullifierSparseMerkleTree (common/src/nullifier_sparse_merkle_tree.rs). *)
(***************************************************************************)
Hashes == 1 .. MaxHash

NullifierTreeInput ==
    [nullifier_id : 1 .. MaxNullifierId,
     tx_id : 1 .. MaxTxId,
     block_id : 1 .. MaxBlockId,
     nullifier : Hashes]

NullifierTreeInputs == UNION {[1 .. n -> NullifierTreeInput] : n \in 0 .. MaxBatch}

HashLists == UNION {[1 .. n -> Hashes] : n \in 0 .. MaxBatch}

HashesOf(tree_nullifiers) ==
    [i \in 1 .. Len(tree_nullifiers) |-> tree_nullifiers[i].nullifier]

\* BTreeMap::insert
MapInsert(map, key, value) ==
    [k \in DOMAIN map \cup {key} |-> IF k = key THEN value ELSE map[k]]

modify_leavs_with_nullifier_input(leavs, tree_nullifier) ==
    IF tree_nullifier.block_id \in DOMAIN leavs
    THEN LET tree_block == leavs[tree_nullifier.block_id]
         IN  IF tree_nullifier.tx_id \in DOMAIN tree_block.txs
             THEN LET tree_tx == tree_block.txs[tree_nullifier.tx_id]
                      new_tx == [tree_tx EXCEPT !.nullifiers =
                                    MapInsert(@, tree_nullifier.nullifier_id,
                                              tree_nullifier.nullifier)]
                  IN  [leavs EXCEPT ![tree_nullifier.block_id].txs[tree_nullifier.tx_id] = new_tx]
             ELSE [leavs EXCEPT ![tree_nullifier.block_id].txs =
                      MapInsert(@, tree_nullifier.tx_id,
                                [id |-> tree_nullifier.tx_id, nullifiers |-> <<>>])]
    ELSE MapInsert(leavs, tree_nullifier.block_id,
                   [id |-> tree_nullifier.block_id, txs |-> <<>>])

RECURSIVE modify_leavs_with_all(_, _, _)
\* the loop of insert_items over the batch
modify_leavs_with_all(leavs, tree_nullifiers, i) ==
    IF i > Len(tree_nullifiers) THEN leavs
    ELSE modify_leavs_with_all(
             modify_leavs_with_nullifier_input(leavs, tree_nullifiers[i]),
             tree_nullifiers, i + 1)

\* the type of every error the tree returns: a monotree::Errors, which holds
\* a message and nothing else
Errors_kind(result) == "monotree::Errors"

\* search_item_inclusion looking the hash up in a tree without entries
search_item_inclusion_under_no_root(root, nullifier_hash, db_fails) ==
    IF db_fails THEN Err("db") ELSE Ok(Monotree_get(None, nullifier_hash) # None)

\* self.tree.get(self.curr_root.as_ref(), &nullifier_hash).map(|data| data.is_some())
search_item_inclusion(root, nullifier_hash, db_fails) ==
    IF db_fails THEN Err("db") ELSE Ok(Monotree_get(root, nullifier_hash) # None)

RECURSIVE search_item_inclusions(_, _, _, _, _)
\* fail_at: the position whose lookup the database fails, 0 for none
search_item_inclusions(root, nullifier_hashes, fail_at, i, inclusions) ==
    IF i > Len(nullifier_hashes) THEN Ok(inclusions)
    ELSE LET is_included == search_item_inclusion(root, nullifier_hashes[i], fail_at = i)
         IN  IF is_included.is_err THEN is_included
             ELSE search_item_inclusions(root, nullifier_hashes, fail_at, i + 1,
                                         Append(inclusions, is_included.value))

\* get_non_membership_proof answering with no root
get_non_membership_proof_without_root(root, nullifier_hash, search_fails, proof_fails) ==
    LET is_member == search_item_inclusion(root, nullifier_hash, search_fails)
    IN  IF is_member.is_err THEN is_member
        ELSE IF is_member.value THEN Err("Is a member")
        ELSE IF proof_fails THEN Err("db")
        ELSE Ok(<<Monotree_get_merkle_proof(root, nullifier_hash), None>>)

\* search_fails, proof_fails: the database fails the lookup, the proof generation
get_non_membership_proof(root, nullifier_hash, search_fails, proof_fails) ==
    LET is_member == search_item_inclusion(root, nullifier_hash, search_fails)
    IN  IF is_member.is_err THEN is_member
        ELSE IF is_member.value THEN Err("Is a member")
        ELSE IF proof_fails THEN Err("db")
        ELSE Ok(<<Monotree_get_merkle_proof(root, nullifier_hash), root>>)

RECURSIVE get_non_membership_proofs_skipping(_, _, _, _, _, _)
\* get_non_membership_proofs leaving a member out of the answer instead of failing
get_non_membership_proofs_skipping(root, nullifier_hashes, fail_at, in_search, i, proofs) ==
    IF i > Len(nullifier_hashes) THEN Ok(proofs)
    ELSE LET is_member ==
                 search_item_inclusion(root, nullifier_hashes[i], fail_at = i /\ in_search)
         IN  IF is_member.is_err THEN is_member
             ELSE IF is_member.value
             THEN get_non_membership_proofs_skipping(
                      root, nullifier_hashes, fail_at, in_search, i + 1, proofs)
             ELSE IF fail_at = i /\ ~ in_search THEN Err("db")
             ELSE get_non_membership_proofs_skipping(
                      root, nullifier_hashes, fail_at, in_search, i + 1,
                      Append(proofs,
                             <<Monotree_get_merkle_proof(root, nullifier_hashes[i]), root>>))

RECURSIVE get_non_membership_proofs(_, _, _, _, _, _)
\* fail_at, in_search: the position at which the database fails (0 for none)
\* and whether it fails the lookup or the proof generation
get_non_membership_proofs(root, nullifier_hashes, fail_at, in_search, i, non_membership_proofs) ==
    IF i > Len(nullifier_hashes) THEN Ok(non_membership_proofs)
    ELSE LET is_member ==
                 search_item_inclusion(root, nullifier_hashes[i], fail_at = i /\ in_search)
         IN  IF is_member.is_err THEN is_member
             ELSE IF is_member.value
             THEN Err(ToString(nullifier_hashes[i]) \o " Is a member")
             ELSE IF fail_at = i /\ ~ in_search THEN Err("db")
             ELSE get_non_membership_proofs(
                      root, nullifier_hashes, fail_at, in_search, i + 1,
                      Append(non_membership_proofs,
                             <<Monotree_get_merkle_proof(root, nullifier_hashes[i]), root>>))

\* NullifierSparseMerkleTree::new()
TreeInit ==
    /\ curr_root = None
    /\ tree = {}
    /\ leafs = <<>>
    /\ t_call = [op |-> "new", hashes |-> <<>>]
    /\ t_result = Ok(<<>>)
    /\ inserted = {}

InsertItem ==
    \E tree_nullifier \in NullifierTreeInput, db_fails \in BOOLEAN :
        /\ UNCHANGED <<overflow_checks, validatorVars, circuitVars, merkleVars, noteVars, keyVars, stateVars, blobVars, nodeVars>>
        /\ t_call' = [op |-> "insert_item", hashes |-> <<tree_nullifier.nullifier>>]
        /\ IF db_fails
           THEN /\ t_result' = Err("db")
                /\ tree' \in {tree, tree \cup {Monotree_insert(curr_root,
                                                                tree_nullifier.nullifier)}}
                /\ UNCHANGED <<curr_root, leafs, inserted>>
           ELSE LET new_root == Monotree_insert(curr_root, tree_nullifier.nullifier)
                IN  /\ curr_root' = new_root
                    /\ tree' = tree \cup {new_root}
                    /\ leafs' = modify_leavs_with_nullifier_input(leafs, tree_nullifier)
                    /\ t_result' = Ok(<<>>)
                    /\ inserted' = inserted \cup {tree_nullifier.nullifier}

\* insert_items filling the leafs index before the insert into the tree
InsertItems_leafs_first ==
    \E tree_nullifiers \in NullifierTreeInputs, db_fails \in BOOLEAN :
        /\ UNCHANGED <<overflow_checks, validatorVars, circuitVars, merkleVars, noteVars, keyVars, stateVars, blobVars, nodeVars>>
        /\ t_call' = [op |-> "insert_items", hashes |-> HashesOf(tree_nullifiers)]
        /\ leafs' = modify_leavs_with_all(leafs, tree_nullifiers, 1)
        /\ IF db_fails
           THEN /\ t_result' = Err("db")
                /\ UNCHANGED <<curr_root, tree, inserted>>
           ELSE LET new_root == Monotree_inserts(curr_root, HashesOf(tree_nullifiers), 1)
                IN  /\ curr_root' = new_root
                    /\ tree' = tree \cup (IF new_root = None THEN {} ELSE {new_root})
                    /\ t_result' = Ok(<<>>)
                    /\ inserted' =
                          inserted \cup {tree_nullifiers[i].nullifier :
                                            i \in 1 .. Len(tree_nullifiers)}

\* an insert the database fails may have written nodes of the new tree
\* already; curr_root and leafs are assigned after the insert returned
InsertItems ==
    \E tree_nullifiers \in NullifierTreeInputs, db_fails \in BOOLEAN :
        /\ UNCHANGED <<overflow_checks, validatorVars, circuitVars, merkleVars, noteVars, keyVars, stateVars, blobVars, nodeVars>>
        /\ t_call' = [op |-> "insert_items", hashes |-> HashesOf(tree_nullifiers)]
        /\ IF db_fails
           THEN /\ t_result' = Err("db")
                /\ \E written \in 0 .. Len(tree_nullifiers) :
                      LET partial == Monotree_inserts(
                                         curr_root,
                                         SubSeq(HashesOf(tree_nullifiers), 1, written), 1)
                      IN  tree' = tree \cup (IF partial = None THEN {} ELSE {partial})
                /\ UNCHANGED <<curr_root, leafs, inserted>>
           ELSE LET new_root == Monotree_inserts(curr_root, HashesOf(tree_nullifiers), 1)
                IN  /\ curr_root' = new_root
                    /\ tree' = tree \cup (IF new_root = None THEN {} ELSE {new_root})
                    /\ leafs' = modify_leavs_with_all(leafs, tree_nullifiers, 1)
                    /\ t_result' = Ok(<<>>)
                    /\ inserted' =
                          inserted \cup {tree_nullifiers[i].nullifier :
                                            i \in 1 .. Len(tree_nullifiers)}

SearchItemInclusion ==
    \E nullifier_hash \in Hashes, db_fails \in BOOLEAN :
        /\ t_call' = [op |-> "search_item_inclusion", hashes |-> <<nullifier_hash>>]
        /\ t_result' = search_item_inclusion(curr_root, nullifier_hash, db_fails)
        /\ UNCHANGED <<curr_root, tree, leafs, inserted, overflow_checks, validatorVars, circuitVars, merkleVars, noteVars, keyVars, stateVars, blobVars, nodeVars>>

SearchItemInclusions ==
    \E nullifier_hashes \in HashLists :
        \E fail_at \in 0 .. Len(nullifier_hashes) :
            /\ t_call' = [op |-> "search_item_inclusions", hashes |-> nullifier_hashes]
            /\ t_result' = search_item_inclusions(curr_root, nullifier_hashes, fail_at, 1, <<>>)
            /\ UNCHANGED <<curr_root, tree, leafs, inserted, overflow_checks, validatorVars, circuitVars, merkleVars, noteVars, keyVars, stateVars, blobVars, nodeVars>>

GetNonMembershipProof ==
    \E nullifier_hash \in Hashes, search_fails \in BOOLEAN, proof_fails \in BOOLEAN :
        /\ t_call' = [op |-> "get_non_membership_proof", hashes |-> <<nullifier_hash>>]
        /\ t_result' =
              get_non_membership_proof(curr_root, nullifier_hash, search_fails, proof_fails)
        /\ UNCHANGED <<curr_root, tree, leafs, inserted, overflow_checks, validatorVars, circuitVars, merkleVars, noteVars, keyVars, stateVars, blobVars, nodeVars>>

GetNonMembershipProofs ==
    \E nullifier_hashes \in HashLists :
        \E fail_at \in 0 .. Len(nullifier_hashes), in_search \in BOOLEAN :
            /\ t_call' = [op |-> "get_non_membership_proofs", hashes |-> nullifier_hashes]
            /\ t_result' =
                  get_non_membership_proofs(curr_root, nullifier_hashes, fail_at, in_search,
                                            1, <<>>)
            /\ UNCHANGED <<curr_root, tree, leafs, inserted, overflow_checks, validatorVars, circuitVars, merkleVars, noteVars, keyVars, stateVars, blobVars, nodeVars>>


(***************************************************************************)
(* Keys, commitments and nullifiers (nssa_core).  Hashes are kept as the   *)
(* terms they are computed from.                                           *)
(***************************************************************************)
NullifierPublicKey_from(nsk) == <<"npk", nsk>>

AccountId_from(npk) == <<"account_id", npk>>

\* a commitment that does not bind the nonce
Commitment_new_without_nonce(npk, account) == <<"commitment", npk, Account_to_bytes_without_nonce(account)>>

\* Commitment::new: the hash of the key and of the serialised account, kept as
\* the term of its input
Commitment_new(npk, account) == <<"commitment", npk, Account_to_bytes(account)>>

Nullifier_for_account_update(commitment, nsk) == <<"nullifier_update", commitment, nsk>>

Nullifier_for_account_initialization(npk) == <<"nullifier_init", npk>>

DUMMY_COMMITMENT_HASH == <<"dummy">>

hash_bytes(bytes) == <<"sha256", bytes>>

RECURSIVE digest_from(_, _, _, _)
\* the loop over the nodes of the authentication path
digest_from(result, level_index, path, k) ==
    IF k > Len(path) THEN result
    ELSE LET is_left_child == level_index % 2 = 0
             next == IF is_left_child
                     THEN hash_bytes(<<result, path[k]>>)
                     ELSE hash_bytes(<<path[k], result>>)
         IN  digest_from(next, level_index \div 2, path, k + 1)

\* proof: [index, path]
compute_digest_for_path(commitment, proof) ==
    digest_from(hash_bytes(commitment), proof.index, proof.path, 1)

EncryptionScheme_encrypt(account, shared_secret, commitment, output_index) ==
    <<"ciphertext", <<"kdf", shared_secret, commitment, output_index>>, account>>

(***************************************************************************)
(* Ciphertext (nssa/core/src/lib.rs).  A byte of a buffer is kept with the *)
(* keystream bytes that are XORed onto it: applying the same keystream     *)
(* byte twice takes it off again.                                          *)
(***************************************************************************)
\* a plain byte string as a buffer
buffer_of(bytes) == [i \in 1 .. Len(bytes) |-> [byte |-> bytes[i], stream |-> {}]]

\* ChaCha20::new(key, nonce 0) and apply_keystream: byte i of the buffer is
\* XORed with byte i of the keystream of the key
apply_keystream(key, buffer) ==
    [i \in 1 .. Len(buffer) |->
        [byte |-> buffer[i].byte,
         stream |-> (buffer[i].stream \ {<<key, i>>}) \cup ({<<key, i>>} \ buffer[i].stream)]]

\* lines 102-117
Ciphertext_kdf(ss_bytes, npk, commitment, output_index) ==
    hash_bytes(<<"NSSA/v0.1/KDF-SHA256", ss_bytes, npk, commitment>> \o le_bytes(output_index, 4))

\* a ciphertext whose key does not depend on the output index
Ciphertext_new_one_key(account, shared_secret, npk, commitment, output_index) ==
    apply_keystream(Ciphertext_kdf(shared_secret, npk, commitment, 0), buffer_of(Account_to_bytes(account)))

\* lines 86-100
Ciphertext_new(account, shared_secret, npk, commitment, output_index) ==
    LET buffer == buffer_of(Account_to_bytes(account))
        key == Ciphertext_kdf(shared_secret, npk, commitment, output_index)
    IN  apply_keystream(key, buffer)

\* lines 70-85; bytes that are still under a keystream are not the bytes of an
\* account, and reading them yields no account
Ciphertext_decrypt(self, shared_secret, npk, commitment, output_index) ==
    LET key == Ciphertext_kdf(shared_secret, npk, commitment, output_index)
        buffer == apply_keystream(key, self)
    IN  IF \E i \in 1 .. Len(buffer) : buffer[i].stream # {}
        THEN None
        ELSE LET read == Account_from_cursor([i \in 1 .. Len(buffer) |-> buffer[i].byte])
             IN  IF read.is_err THEN None ELSE Some(read.value)

(***************************************************************************)
(* The privacy-preserving circuit                                          *)
(* (nssa/program_methods/guest/src/bin/privacy_preserving_circuit.rs).     *)
(***************************************************************************)
\* the longest chain of calls the loop follows; the constant is defined in
\* nssa_core::program, and the model takes a small value for it
MAX_NUMBER_CHAINED_CALLS == 3

Panic(message) == [panic |-> message]

Panicked(r) == r.panic # ""

\* lines 46-50: the invoked program claims the accounts with default program id
claim_post_states(post_states, program_id) ==
    [i \in 1 .. Len(post_states) |->
        IF post_states[i].program_owner = DEFAULT_PROGRAM_ID
        THEN [post_states[i] EXCEPT !.program_owner = program_id]
        ELSE post_states[i]]

RECURSIVE collect_pre_states(_, _, _, _, _)
\* lines 52-62: state_diff maps account ids to accounts
collect_pre_states(pre_states, state_diff, program_output, post_states, k) ==
    IF k > Len(program_output.pre_states) \/ k > Len(post_states)
    THEN [pre_states |-> pre_states, state_diff |-> state_diff]
    ELSE LET pre == program_output.pre_states[k]
         IN  IF pre.account_id \notin DOMAIN state_diff
             THEN collect_pre_states(Append(pre_states, pre), state_diff,
                                     program_output, post_states, k + 1)
             ELSE collect_pre_states(pre_states,
                                     [state_diff EXCEPT ![pre.account_id] = post_states[k]],
                                     program_output, post_states, k + 1)

RECURSIVE chained_calls(_, _, _, _, _, _)
\* lines 29-92: the loop over the chained calls; receipts is the set of
\* program ids env::verify accepts the program output for
chained_calls(receipts, program_output, program_id, pre_states, state_diff, calls_left) ==
    IF calls_left = 0
    THEN [panic |-> "", program_output |-> program_output, program_id |-> program_id,
          pre_states |-> pre_states]
    ELSE IF program_id \notin receipts THEN Panic("verify")
    ELSE IF validate_execution(program_output.pre_states, program_output.post_states,
                               program_id) # "true"
         THEN Panic("Bad behaved program")
    ELSE LET post_states == claim_post_states(program_output.post_states, program_id)
             claimed == [program_output EXCEPT !.post_states = post_states]
             collected == collect_pre_states(pre_states, state_diff, program_output,
                                             post_states, 1)
         IN  IF program_output.chained_call # None
             THEN chained_calls(receipts, claimed, program_output.chained_call[1].program_id,
                                collected.pre_states, collected.state_diff, calls_left - 1)
             ELSE [panic |-> "", program_output |-> claimed, program_id |-> program_id,
                   pre_states |-> collected.pre_states]

\* u128 += 1
u128_increment(n) ==
    IF n + 1 >= U128Modulus /\ overflow_checks THEN -1 ELSE (n + 1) % U128Modulus

\* lines 118-126: the public post-state; -1 when the nonce increment panics
public_post_state(pre_state, post_state, program_id) ==
    LET nonce == IF pre_state.is_authorized
                 THEN u128_increment(post_state.nonce) ELSE post_state.nonce
        post == [post_state EXCEPT !.nonce = nonce]
    IN  IF post.program_owner = DEFAULT_PROGRAM_ID
        THEN [post EXCEPT !.program_owner = program_id]
        ELSE post

\* private_update_nullifier taking the nullifier of the set digest
private_update_nullifier_of_digest(pre_state, npk, nsk, membership_proof) ==
    LET expected_npk == NullifierPublicKey_from(nsk)
        commitment_pre == Commitment_new(npk, pre_state.account)
        set_digest == compute_digest_for_path(commitment_pre, membership_proof)
    IN  IF expected_npk # npk THEN Panic("Nullifier public key mismatch")
        ELSE IF ~ pre_state.is_authorized THEN Panic("Pre-state not authorized")
        ELSE [panic |-> "",
              nullifier |-> <<Nullifier_for_account_update(set_digest, nsk), set_digest>>]

\* private_update_nullifier without the check of the pre-state's authorization
private_update_nullifier_unauthorized(pre_state, npk, nsk, membership_proof) ==
    LET expected_npk == NullifierPublicKey_from(nsk)
        commitment_pre == Commitment_new(npk, pre_state.account)
        set_digest == compute_digest_for_path(commitment_pre, membership_proof)
    IN  IF expected_npk # npk THEN Panic("Nullifier public key mismatch")
        ELSE [panic |-> "",
              nullifier |-> <<Nullifier_for_account_update(commitment_pre, nsk), set_digest>>]

\* lines 136-158: private account with authentication
private_update_nullifier(pre_state, npk, nsk, membership_proof) ==
    LET expected_npk == NullifierPublicKey_from(nsk)
        commitment_pre == Commitment_new(npk, pre_state.account)
        set_digest == compute_digest_for_path(commitment_pre, membership_proof)
    IN  IF expected_npk # npk THEN Panic("Nullifier public key mismatch")
        ELSE IF ~ pre_state.is_authorized THEN Panic("Pre-state not authorized")
        ELSE [panic |-> "",
              nullifier |-> <<Nullifier_for_account_update(commitment_pre, nsk), set_digest>>]

\* private_new_nullifier looking at the owner of the pre-state only
private_new_nullifier_default_owner(pre_state, npk) ==
    IF pre_state.account.program_owner # DEFAULT_PROGRAM_ID
    THEN Panic("Found new private account with non default values.")
    ELSE IF pre_state.is_authorized
    THEN Panic("Found new private account marked as authorized.")
    ELSE [panic |-> "",
          nullifier |-> <<Nullifier_for_account_initialization(npk), DUMMY_COMMITMENT_HASH>>]

\* lines 159-171: new private account
private_new_nullifier(pre_state, npk) ==
    IF pre_state.account # AccountDefault
    THEN Panic("Found new private account with non default values.")
    ELSE IF pre_state.is_authorized
    THEN Panic("Found new private account marked as authorized.")
    ELSE [panic |-> "",
          nullifier |-> <<Nullifier_for_account_initialization(npk), DUMMY_COMMITMENT_HASH>>]

\* private_post_state keeping the nonce of the program's post-state
private_post_state_old_nonce(post_state, new_nonce, program_id) ==
    IF post_state.program_owner = DEFAULT_PROGRAM_ID
    THEN [post_state EXCEPT !.program_owner = program_id]
    ELSE post_state

\* lines 173-180: the post-state with the new nonce, claimed
private_post_state(post_state, new_nonce, program_id) ==
    LET post_with_updated_values == [post_state EXCEPT !.nonce = new_nonce]
    IN  IF post_with_updated_values.program_owner = DEFAULT_PROGRAM_ID
        THEN [post_with_updated_values EXCEPT !.program_owner = program_id]
        ELSE post_with_updated_values

\* private_account without the comparison of the account id of the pre-state
\* with the account id of the key
private_account_any_id(st, i, pre_states, post_states, input, program_id) ==
    IF st.nonces_next > Len(input.private_account_nonces) THEN Panic("Missing private nonce")
    ELSE IF st.keys_next > Len(input.private_account_keys) THEN Panic("Missing keys")
    ELSE
    LET mask == input.visibility_mask[i]
        new_nonce == input.private_account_nonces[st.nonces_next]
        npk == input.private_account_keys[st.keys_next].npk
        shared_secret == input.private_account_keys[st.keys_next].shared_secret
        made == IF mask = 1
                THEN IF st.auth_next > Len(input.private_account_auth)
                     THEN Panic("Missing private auth")
                     ELSE private_update_nullifier(
                              pre_states[i], npk,
                              input.private_account_auth[st.auth_next].nsk,
                              input.private_account_auth[st.auth_next].membership_proof)
                ELSE private_new_nullifier(pre_states[i], npk)
        post_with_updated_values == private_post_state(post_states[i], new_nonce, program_id)
        commitment_post == Commitment_new(npk, post_with_updated_values)
        encrypted_account ==
            EncryptionScheme_encrypt(post_with_updated_values, shared_secret,
                                     commitment_post, st.output_index)
    IN  IF Panicked(made) THEN made
        ELSE IF i > Len(post_states) THEN Panic("index out of bounds")
        ELSE [st EXCEPT
                !.nonces_next = @ + 1,
                !.keys_next = @ + 1,
                !.auth_next = IF mask = 1 THEN @ + 1 ELSE @,
                !.new_nullifiers = Append(@, made.nullifier),
                !.new_commitments = Append(@, commitment_post),
                !.ciphertexts = Append(@, encrypted_account),
                !.output_index = @ + 1]

\* lines 128-196: one private account; st holds the output lists, the
\* positions of the three iterators and output_index
private_account(st, i, pre_states, post_states, input, program_id) ==
    IF st.nonces_next > Len(input.private_account_nonces) THEN Panic("Missing private nonce")
    ELSE IF st.keys_next > Len(input.private_account_keys) THEN Panic("Missing keys")
    ELSE
    LET mask == input.visibility_mask[i]
        new_nonce == input.private_account_nonces[st.nonces_next]
        npk == input.private_account_keys[st.keys_next].npk
        shared_secret == input.private_account_keys[st.keys_next].shared_secret
        made == IF mask = 1
                THEN IF st.auth_next > Len(input.private_account_auth)
                     THEN Panic("Missing private auth")
                     ELSE private_update_nullifier(
                              pre_states[i], npk,
                              input.private_account_auth[st.auth_next].nsk,
                              input.private_account_auth[st.auth_next].membership_proof)
                ELSE private_new_nullifier(pre_states[i], npk)
        post_with_updated_values == private_post_state(post_states[i], new_nonce, program_id)
        commitment_post == Commitment_new(npk, post_with_updated_values)
        encrypted_account ==
            EncryptionScheme_encrypt(post_with_updated_values, shared_secret,
                                     commitment_post, st.output_index)
    IN  IF AccountId_from(npk) # pre_states[i].account_id THEN Panic("AccountId mismatch")
        ELSE IF Panicked(made) THEN made
        ELSE IF i > Len(post_states) THEN Panic("index out of bounds")
        ELSE [st EXCEPT
                !.nonces_next = @ + 1,
                !.keys_next = @ + 1,
                !.auth_next = IF mask = 1 THEN @ + 1 ELSE @,
                !.new_nullifiers = Append(@, made.nullifier),
                !.new_commitments = Append(@, commitment_post),
                !.ciphertexts = Append(@, encrypted_account),
                !.output_index = @ + 1]

\* public_account advancing output_index as a private account does
public_account_counting(st, i, pre_states, post_states, program_id) ==
    IF i > Len(post_states) THEN Panic("index out of bounds")
    ELSE LET post == public_post_state(pre_states[i], post_states[i], program_id)
         IN  IF post.nonce = -1 THEN Panic("attempt to add with overflow")
             ELSE [st EXCEPT !.public_pre_states = Append(@, pre_states[i]),
                             !.public_post_states = Append(@, post),
                             !.output_index = @ + 1]

\* lines 114-127: one public account
public_account(st, i, pre_states, post_states, program_id) ==
    IF i > Len(post_states) THEN Panic("index out of bounds")
    ELSE LET post == public_post_state(pre_states[i], post_states[i], program_id)
         IN  IF post.nonce = -1 THEN Panic("attempt to add with overflow")
             ELSE [st EXCEPT !.public_pre_states = Append(@, pre_states[i]),
                             !.public_post_states = Append(@, post)]

RECURSIVE process_accounts_lenient(_, _, _, _, _, _)
\* process_accounts taking every mask value other than 1 and 2 as public
process_accounts_lenient(st, i, pre_states, post_states, input, program_id) ==
    IF i > Len(pre_states) THEN st
    ELSE LET next ==
                 IF input.visibility_mask[i] \in {1, 2}
                 THEN private_account(st, i, pre_states, post_states, input, program_id)
                 ELSE public_account(st, i, pre_states, post_states, program_id)
         IN  IF Panicked(next) THEN next
             ELSE process_accounts_lenient(next, i + 1, pre_states, post_states, input,
                                           program_id)

RECURSIVE process_accounts(_, _, _, _, _, _)
\* lines 112-199: the loop over the accounts
process_accounts(st, i, pre_states, post_states, input, program_id) ==
    IF i > Len(pre_states) THEN st
    ELSE LET next ==
                 IF input.visibility_mask[i] = 0
                 THEN public_account(st, i, pre_states, post_states, program_id)
                 ELSE IF input.visibility_mask[i] \in {1, 2}
                 THEN private_account(st, i, pre_states, post_states, input, program_id)
                 ELSE Panic("Invalid visibility mask value")
         IN  IF Panicked(next) THEN next
             ELSE process_accounts(next, i + 1, pre_states, post_states, input, program_id)

EmptyOutput ==
    [public_pre_states |-> <<>>, public_post_states |-> <<>>, ciphertexts |-> <<>>,
     new_commitments |-> <<>>, new_nullifiers |-> <<>>]

\* main without the checks that follow the loop over the accounts
main_without_trailing_checks(input) ==
    LET chain == chained_calls(input.receipts, input.program_outputs[1], input.program_id,
                               <<>>, <<>>, MAX_NUMBER_CHAINED_CALLS)
    IN  IF Panicked(chain) THEN [panic |-> chain.panic, output |-> EmptyOutput]
        ELSE IF Len(input.visibility_mask) # Len(chain.pre_states)
        THEN [panic |-> "Invalid visibility mask length", output |-> EmptyOutput]
        ELSE
        LET start == [panic |-> "",
                      public_pre_states |-> <<>>, public_post_states |-> <<>>,
                      ciphertexts |-> <<>>, new_commitments |-> <<>>,
                      new_nullifiers |-> <<>>,
                      nonces_next |-> 1, keys_next |-> 1, auth_next |-> 1,
                      output_index |-> 0]
            st == process_accounts(start, 1, chain.pre_states,
                                   chain.program_output.post_states, input,
                                   chain.program_id)
        IN  IF Panicked(st) THEN [panic |-> st.panic, output |-> EmptyOutput]
            ELSE [panic |-> "",
                  output |-> [public_pre_states |-> st.public_pre_states,
                              public_post_states |-> st.public_post_states,
                              ciphertexts |-> st.ciphertexts,
                              new_commitments |-> st.new_commitments,
                              new_nullifiers |-> st.new_nullifiers]]

\* main committing the output before the checks that follow the loop
main_committing_early(input) ==
    LET chain == chained_calls(input.receipts, input.program_outputs[1], input.program_id,
                               <<>>, <<>>, MAX_NUMBER_CHAINED_CALLS)
    IN  IF Panicked(chain) THEN [panic |-> chain.panic, output |-> EmptyOutput]
        ELSE IF Len(input.visibility_mask) # Len(chain.pre_states)
        THEN [panic |-> "Invalid visibility mask length", output |-> EmptyOutput]
        ELSE
        LET start == [panic |-> "",
                      public_pre_states |-> <<>>, public_post_states |-> <<>>,
                      ciphertexts |-> <<>>, new_commitments |-> <<>>,
                      new_nullifiers |-> <<>>,
                      nonces_next |-> 1, keys_next |-> 1, auth_next |-> 1,
                      output_index |-> 0]
            st == process_accounts(start, 1, chain.pre_states,
                                   chain.program_output.post_states, input,
                                   chain.program_id)
            output == [public_pre_states |-> st.public_pre_states,
                       public_post_states |-> st.public_post_states,
                       ciphertexts |-> st.ciphertexts,
                       new_commitments |-> st.new_commitments,
                       new_nullifiers |-> st.new_nullifiers]
        IN  IF Panicked(st) THEN [panic |-> st.panic, output |-> EmptyOutput]
            ELSE IF st.nonces_next <= Len(input.private_account_nonces)
            THEN [panic |-> "Too many nonces.", output |-> output]
            ELSE IF st.keys_next <= Len(input.private_account_keys)
            THEN [panic |-> "Too many private account keys.", output |-> output]
            ELSE IF st.auth_next <= Len(input.private_account_auth)
            THEN [panic |-> "Too many private account authentication keys.",
                  output |-> output]
            ELSE [panic |-> "", output |-> output]

\* main: the journal the circuit commits, or the panic that ends it
main(input) ==
    LET chain == chained_calls(input.receipts, input.program_outputs[1], input.program_id,
                               <<>>, <<>>, MAX_NUMBER_CHAINED_CALLS)
    IN  IF Panicked(chain) THEN [panic |-> chain.panic, output |-> EmptyOutput]
        ELSE IF Len(input.visibility_mask) # Len(chain.pre_states)
        THEN [panic |-> "Invalid visibility mask length", output |-> EmptyOutput]
        ELSE
        LET start == [panic |-> "",
                      public_pre_states |-> <<>>, public_post_states |-> <<>>,
                      ciphertexts |-> <<>>, new_commitments |-> <<>>,
                      new_nullifiers |-> <<>>,
                      nonces_next |-> 1, keys_next |-> 1, auth_next |-> 1,
                      output_index |-> 0]
            st == process_accounts(start, 1, chain.pre_states,
                                   chain.program_output.post_states, input,
                                   chain.program_id)
        IN  IF Panicked(st) THEN [panic |-> st.panic, output |-> EmptyOutput]
            ELSE IF st.nonces_next <= Len(input.private_account_nonces)
            THEN [panic |-> "Too many nonces.", output |-> EmptyOutput]
            ELSE IF st.keys_next <= Len(input.private_account_keys)
            THEN [panic |-> "Too many private account keys.", output |-> EmptyOutput]
            ELSE IF st.auth_next <= Len(input.private_account_auth)
            THEN [panic |-> "Too many private account authentication keys.",
                  output |-> EmptyOutput]
            ELSE [panic |-> "",
                  output |-> [public_pre_states |-> st.public_pre_states,
                              public_post_states |-> st.public_post_states,
                              ciphertexts |-> st.ciphertexts,
                              new_commitments |-> st.new_commitments,
                              new_nullifiers |-> st.new_nullifiers]]

(***************************************************************************)
(* MerkleTree (nssa/src/merkle_tree/mod.rs).  A tree is the record of its  *)
(* fields; the nodes are numbered from the top of the tree of full         *)
(* capacity, the leaves are the nodes capacity - 1 .. 2 * capacity - 2.    *)
(* A value is a sequence of one byte string, two nodes side by side are a  *)
(* sequence of two.                                                        *)
(***************************************************************************)
Values == {<<v>> : v \in 1 .. MaxValue}

hash_two(left, right) == hash_bytes(<<left, right>>)

hash_value(value) == hash_bytes(value)

\* default_values::DEFAULT_VALUES[level]: the node of a subtree without values
DEFAULT_VALUES(level) == <<"default", level>>

RECURSIVE next_power_of_two_from(_, _)
next_power_of_two_from(power, n) ==
    IF power >= n THEN power ELSE next_power_of_two_from(2 * power, n)

\* usize::next_power_of_two: the smallest power of two that is at least n
next_power_of_two(n) == next_power_of_two_from(1, n)

RECURSIVE trailing_zeros(_)
\* usize::trailing_zeros of a number above 0
trailing_zeros(n) == IF n % 2 = 1 THEN 0 ELSE 1 + trailing_zeros(n \div 2)

RECURSIVE index_depth(_)
\* usize::BITS - (index + 1).leading_zeros() - 1 at index = n - 1
index_depth(n) == IF n <= 1 THEN 0 ELSE 1 + index_depth(n \div 2)

depth(t) == trailing_zeros(next_power_of_two(Cardinality(DOMAIN t.index_map)))

root_index(t) ==
    LET capacity_depth == trailing_zeros(t.capacity)
        diff == capacity_depth - depth(t)
    IN  IF diff = 0 THEN 0 ELSE 2 ^ diff - 1

\* a node that is not in node_map is the default of its level
get_node(t, index) ==
    IF index \in DOMAIN t.node_map THEN t.node_map[index]
    ELSE DEFAULT_VALUES(trailing_zeros(t.capacity) - index_depth(index + 1))

root(t) == get_node(t, root_index(t))

set_node(t, index, node) == [t EXCEPT !.node_map = MapInsert(@, index, node)]

with_capacity(n) ==
    [index_map |-> <<>>, node_map |-> <<>>, capacity |-> next_power_of_two(n)]

\* the values of a tree in the order of their indices
values_by_index(t) ==
    [k \in 1 .. Cardinality(DOMAIN t.index_map) |->
        CHOOSE value \in DOMAIN t.index_map : t.index_map[value] = k - 1]

RECURSIVE insert_layers(_, _, _, _, _)
\* the loop of insert from the new leaf up to the root
insert_layers(t, layer, top_layer, layer_index, layer_node) ==
    IF layer >= top_layer THEN t
    ELSE LET is_left_child == layer_index % 2 = 1
             parent_index == IF is_left_child
                             THEN (layer_index - 1) \div 2
                             ELSE (layer_index - 2) \div 2
             new_parent_node ==
                 IF is_left_child
                 THEN hash_two(layer_node, get_node(t, layer_index + 1))
                 ELSE hash_two(get_node(t, layer_index - 1), layer_node)
         IN  insert_layers(set_node(t, parent_index, new_parent_node), layer + 1,
                           top_layer, parent_index, new_parent_node)

RECURSIVE insert(_, _)
RECURSIVE reallocate_to_double_capacity(_, _, _)
\* the loop of reallocate_to_double_capacity: this is the new tree, values
\* are the values of the old one sorted by index
reallocate_to_double_capacity(this, values, k) ==
    IF k > Len(values) THEN this
    ELSE reallocate_to_double_capacity(insert(this, values[k]).tree, values, k + 1)

\* insert writing the leaf of the value before it looks for the value
insert_writing_first(t, value) ==
    IF value \in DOMAIN t.index_map
    THEN [tree |-> set_node(t, Cardinality(DOMAIN t.index_map) + t.capacity - 1,
                            hash_value(value)),
          returns |-> FALSE]
    ELSE LET self == IF t.capacity = Cardinality(DOMAIN t.index_map)
                     THEN reallocate_to_double_capacity(
                              with_capacity(2 * t.capacity), values_by_index(t), 1)
                     ELSE t
             new_index == Cardinality(DOMAIN self.index_map)
             indexed == [self EXCEPT !.index_map = MapInsert(@, value, new_index)]
             layer_node == hash_value(value)
             layer_index == new_index + indexed.capacity - 1
         IN  [tree |-> insert_layers(set_node(indexed, layer_index, layer_node), 0,
                                     depth(indexed), layer_index, layer_node),
              returns |-> TRUE]

\* insert: the tree after the call and what the call returns
insert(t, value) ==
    IF value \in DOMAIN t.index_map THEN [tree |-> t, returns |-> FALSE]
    ELSE LET self == IF t.capacity = Cardinality(DOMAIN t.index_map)
                     THEN reallocate_to_double_capacity(
                              with_capacity(2 * t.capacity), values_by_index(t), 1)
                     ELSE t
             new_index == Cardinality(DOMAIN self.index_map)
             indexed == [self EXCEPT !.index_map = MapInsert(@, value, new_index)]
             base_length == indexed.capacity
             layer_node == hash_value(value)
             layer_index == new_index + base_length - 1
         IN  [tree |-> insert_layers(set_node(indexed, layer_index, layer_node), 0,
                                     depth(indexed), layer_index, layer_node),
              returns |-> TRUE]

RECURSIVE deduplicated(_, _, _)
\* the first loop of new: the values without the ones seen before
deduplicated(values, k, deduplicated_values) ==
    IF k > Len(values) THEN deduplicated_values
    ELSE deduplicated(values, k + 1,
                      IF \E j \in 1 .. Len(deduplicated_values) :
                             deduplicated_values[j] = values[k]
                      THEN deduplicated_values
                      ELSE Append(deduplicated_values, values[k]))

RECURSIVE insert_all(_, _, _)
\* for value in values { this.insert(value); }
insert_all(this, values, k) ==
    IF k > Len(values) THEN this
    ELSE insert_all(insert(this, values[k]).tree, values, k + 1)

\* MerkleTree::new(values)
MerkleTree_new(values) ==
    LET deduplicated_values == deduplicated(values, 1, <<>>)
    IN  insert_all(with_capacity(Len(deduplicated_values)), deduplicated_values, 1)

RECURSIVE authentication_path(_, _, _, _, _)
\* the loop of get_authentication_path_for: the siblings from the leaf upwards
authentication_path(t, layer, top_layer, layer_index, result) ==
    IF layer >= top_layer THEN result
    ELSE LET is_left_child == layer_index % 2 = 1
             sibling == IF is_left_child
                        THEN get_node(t, layer_index + 1)
                        ELSE get_node(t, layer_index - 1)
             parent_index == IF is_left_child
                             THEN (layer_index - 1) \div 2
                             ELSE (layer_index - 2) \div 2
         IN  authentication_path(t, layer + 1, top_layer, parent_index,
                                 Append(result, sibling))

\* get_authentication_path_for answering with the number of the leaf among
\* the nodes instead of the index of the value
get_authentication_path_for_node_index(t, value) ==
    IF value \notin DOMAIN t.index_map THEN None
    ELSE LET value_index == t.index_map[value]
             base_length == t.capacity
             layer_index == base_length + value_index - 1
         IN  Some([index |-> layer_index,
                   path |-> authentication_path(t, 0, depth(t), layer_index, <<>>)])

\* Option<(usize, Vec<Node>)>: None, or Some of [index, path]
get_authentication_path_for(t, value) ==
    IF value \notin DOMAIN t.index_map THEN None
    ELSE LET value_index == t.index_map[value]
             base_length == t.capacity
             layer_index == base_length + value_index - 1
         IN  Some([index |-> value_index,
                   path |-> authentication_path(t, 0, depth(t), layer_index, <<>>)])

\* the MerkleTree of the state
MerkleTree == [index_map |-> index_map, node_map |-> node_map, capacity |-> capacity]

\* MerkleTree::with_capacity(n)
MerkleInit ==
    /\ \E n \in 0 .. MaxInitialCapacity :
          /\ index_map = with_capacity(n).index_map
          /\ node_map = with_capacity(n).node_map
          /\ capacity = with_capacity(n).capacity
          /\ m_created = n
    /\ m_call = [op |-> "with_capacity", value |-> <<>>]
    /\ m_result = None
    /\ m_inserted = <<>>

Insert ==
    \E value \in Values :
        LET made == insert(MerkleTree, value)
        IN  /\ Len(m_inserted) < MaxInserts
            /\ m_inserted' = Append(m_inserted, value)
            /\ UNCHANGED m_created
            /\ index_map' = made.tree.index_map
            /\ node_map' = made.tree.node_map
            /\ capacity' = made.tree.capacity
            /\ m_call' = [op |-> "insert", value |-> value]
            /\ m_result' = Some(made.returns)
            /\ UNCHANGED <<overflow_checks, validatorVars, treeVars, circuitVars, noteVars, keyVars, stateVars, blobVars, nodeVars>>

GetAuthenticationPathFor ==
    \E value \in Values :
        /\ m_call' = [op |-> "get_authentication_path_for", value |-> value]
        /\ m_result' = get_authentication_path_for(MerkleTree, value)
        /\ UNCHANGED <<index_map, node_map, capacity, m_created, m_inserted,
                       overflow_checks, validatorVars, treeVars, circuitVars, noteVars, keyVars, stateVars, blobVars, nodeVars>>

(***************************************************************************)
(* The validator applied to bounded inputs.                                *)
(***************************************************************************)
AccountLists == UNION {[1 .. n -> Account] : n \in 0 .. MaxLen}

\* the validator reads only the account of a pre-state
PreStatesOf(accounts) ==
    [i \in 1 .. Len(accounts) |-> AccountWithMetadata(accounts[i], FALSE, i)]

ValidatorInit ==
    /\ v_pc = "idle"
    /\ v_pre_states = <<>>
    /\ v_post_states = <<>>
    /\ v_executing_program_id = 1
    /\ v_result = "false"

ValidateExecutionCall ==
    /\ v_pc = "idle"
    /\ \E pre \in AccountLists, post \in AccountLists, id \in ProgramIds :
          /\ v_pre_states' = PreStatesOf(pre)
          /\ v_post_states' = post
          /\ v_executing_program_id' = id
          /\ v_result' = validate_execution(PreStatesOf(pre), post, id)
    /\ v_pc' = "returned"
    /\ UNCHANGED <<overflow_checks, treeVars, circuitVars, merkleVars, noteVars, keyVars, stateVars, blobVars, nodeVars>>

(***************************************************************************)
(* The circuit applied to bounded inputs.  An input is a list of accounts, *)
(* each with its visibility, and the nonces, keys and authentications of   *)
(* its private accounts in order; a deviation makes one of the lists one   *)
(* item short or long, chains a call, withholds the receipt or hands the   *)
(* keys of the first private account to every private account.             *)
(***************************************************************************)
\* an account of program 1 with a balance
OwnedAccount == [AccountDefault EXCEPT !.program_owner = 1, !.balance = 1]

\* an account the program hands to another program
GrantedAccount == [AccountDefault EXCEPT !.program_owner = MaxProgramId]

\* an account nobody owns yet that holds a balance
FundedAccount == [AccountDefault EXCEPT !.balance = 1]

\* an account of program 1 whose nonce is the largest u128
LastNonceAccount == [AccountDefault EXCEPT !.program_owner = 1, !.nonce = U128Modulus - 1]

\* an account of program 1 without a balance
UnfundedAccount == [AccountDefault EXCEPT !.program_owner = 1]

\* (pre-state account, post-state) of one position; the last but one breaks
\* the validator's rules, the last one raises the balance of the account
AccountPairs ==
    {<<AccountDefault, AccountDefault>>, <<AccountDefault, GrantedAccount>>,
     <<FundedAccount, FundedAccount>>, <<LastNonceAccount, LastNonceAccount>>,
     <<OwnedAccount, OwnedAccount>>, <<OwnedAccount, AccountDefault>>,
     <<UnfundedAccount, OwnedAccount>>}

Slot ==
    [mask : 0 .. 3, accounts : AccountPairs, is_authorized : BOOLEAN, id_nsk : 1 .. MaxNsk]

SlotLists == UNION {[1 .. n -> Slot] : n \in 0 .. MaxAccounts}

Deviations ==
    {"none", "nonce_missing", "nonce_extra", "key_missing", "key_extra",
     "auth_missing", "auth_extra", "mask_missing", "mask_extra",
     "chained_call", "no_receipt", "same_key"}

RECURSIVE CountMasks(_, _, _)
\* how many of the first n positions have a mask in masks
CountMasks(slots, masks, n) ==
    IF n = 0 THEN 0
    ELSE CountMasks(slots, masks, n - 1) + (IF slots[n].mask \in masks THEN 1 ELSE 0)

Deviated(length, deviation, missing, extra) ==
    IF deviation = missing THEN (IF length = 0 THEN 0 ELSE length - 1)
    ELSE IF deviation = extra THEN length + 1
    ELSE length

\* the nullifier secret key at a position of a list, cycling through 1..MaxNsk
NskAt(k, shift) == ((k - 1 + shift) % MaxNsk) + 1

CircuitInput(slots, deviation, auth_shift) ==
    LET n == Len(slots)
        private == CountMasks(slots, {1, 2}, n)
        authenticated == CountMasks(slots, {1}, n)
        mask_len == Deviated(n, deviation, "mask_missing", "mask_extra")
        program_output ==
            [pre_states |->
                [i \in 1 .. n |->
                    AccountWithMetadata(
                        slots[i].accounts[1], slots[i].is_authorized,
                        AccountId_from(NullifierPublicKey_from(slots[i].id_nsk)))],
             post_states |-> [i \in 1 .. n |-> slots[i].accounts[2]],
             chained_call |->
                IF deviation = "chained_call"
                THEN Some([program_id |-> MaxProgramId]) ELSE None]
    IN  [program_outputs |-> <<program_output>>,
         visibility_mask |-> [i \in 1 .. mask_len |-> IF i <= n THEN slots[i].mask ELSE 0],
         private_account_nonces |->
            [k \in 1 .. Deviated(private, deviation, "nonce_missing", "nonce_extra") |->
                k % U128Modulus],
         private_account_keys |->
            [k \in 1 .. Deviated(private, deviation, "key_missing", "key_extra") |->
                [npk |-> NullifierPublicKey_from(
                             NskAt(IF deviation = "same_key" THEN 1 ELSE k, 0)),
                 shared_secret |-> k]],
         private_account_auth |->
            [k \in 1 .. Deviated(authenticated, deviation, "auth_missing", "auth_extra") |->
                [nsk |-> NskAt(IF deviation = "same_key" THEN 1 ELSE k, auth_shift),
                 membership_proof |-> [index |-> k % 2, path |-> <<hash_bytes(k)>>]]],
         program_id |-> 1,
         receipts |-> IF deviation = "no_receipt" THEN {} ELSE ProgramIds]

CircuitInit ==
    /\ c_pc = "start"
    /\ c_input = CircuitInput(<<>>, "none", 0)
    /\ c_result = [panic |-> "", output |-> EmptyOutput]

\* one pass of main: env::read, the checks, env::commit
Main ==
    /\ c_pc = "start"
    /\ \E slots \in SlotLists, deviation \in Deviations, auth_shift \in 0 .. MaxNsk - 1 :
          LET input == CircuitInput(slots, deviation, auth_shift)
              result == main(input)
          IN  /\ c_input' = input
              /\ c_result' = result
              /\ c_pc' = IF result.panic = "" THEN "committed" ELSE "panicked"
    /\ UNCHANGED <<overflow_checks, validatorVars, treeVars, merkleVars, noteVars, keyVars, stateVars, blobVars, nodeVars>>

(***************************************************************************)
(* Key agreement (key_protocol/src/key_management/ephemeral_key_holder.rs, *)
(* accounts/src/key_management/mod.rs, nssa/core/src/encryption/           *)
(* shared_key_derivation.rs).  The group of the curve is cyclic: a point   *)
(* is kept as its multiple of the generator, a scalar as a number modulo   *)
(* the order of the group.                                                 *)
(***************************************************************************)
GroupOrder == MaxScalar + 1

\* the secret keys: the scalars other than zero
Scalars == 1 .. MaxScalar

Scalar(n) == <<"scalar", n % GroupOrder>>

AffinePoint_GENERATOR == <<"point", 1>>

\* AffinePoint * Scalar
AffinePoint_mul(point, scalar) == <<"point", (point[2] * scalar[2]) % GroupOrder>>

\* Scalar * Scalar
Scalar_mul(a, b) == <<"scalar", (a[2] * b[2]) % GroupOrder>>

\* ephemeral_key_holder.rs lines 34-36
generate_ephemeral_public_key(ephemeral_secret_key) ==
    AffinePoint_mul(AffinePoint_GENERATOR, ephemeral_secret_key)

\* ephemeral_key_holder.rs lines 38-43: the public key comes as a Scalar
calculate_shared_secret_sender(ephemeral_secret_key, receiver_incoming_viewing_public_key) ==
    Scalar_mul(receiver_incoming_viewing_public_key, ephemeral_secret_key)

\* accounts/src/key_management/mod.rs lines 47-52
calculate_shared_secret_receiver(viewing_secret_key, ephemeral_public_key_sender) ==
    AffinePoint_mul(ephemeral_public_key_sender, viewing_secret_key)

\* shared_key_derivation.rs lines 17-26: the compressed encoding of the point
\* GENERATOR * value, kept as the multiple
Secp256k1Point_from_scalar(value) == <<"sec1", value>>

\* shared_key_derivation.rs lines 38-56: the x coordinate of point * scalar;
\* a point and its negative have the same x coordinate, the point at
\* infinity has none and the unwrap of line 50 panics
SharedSecretKey_new(scalar, point) ==
    LET shared == (point[2] * scalar) % GroupOrder
    IN  IF shared = 0 THEN <<"panic">>
        ELSE <<"x", IF shared <= GroupOrder - shared THEN shared ELSE GroupOrder - shared>>

(***************************************************************************)
(* Key derivation (key_protocol/src/key_management/key_tree/               *)
(* keys_private.rs).  Hashes and keys are kept as the terms they are       *)
(* computed from.                                                          *)
(***************************************************************************)
\* hmac_sha512::HMAC::mac(input, key)
HMAC_mac(input, key) == <<"hmac_sha512", input, key>>

first_chunk(mac_value) == <<"first_chunk", mac_value>>

last_chunk(mac_value) == <<"last_chunk", mac_value>>

generate_nullifier_secret_key(ssk) == <<"nsk", ssk>>

generate_incoming_viewing_secret_key(ssk) == <<"isk", ssk>>

generate_outgoing_viewing_secret_key(ssk) == <<"ovk", ssk>>

\* lines 28-47 and 63-83: the node of a secret spending key and a chain code
ChildKeysPrivate(ssk, ccc, cci) ==
    LET nsk == generate_nullifier_secret_key(ssk)
        isk == generate_incoming_viewing_secret_key(ssk)
        ovk == generate_outgoing_viewing_secret_key(ssk)
    IN  [ssk |-> ssk, nsk |-> nsk, isk |-> isk, ovk |-> ovk,
         npk |-> NullifierPublicKey_from(nsk),
         ipk |-> Secp256k1Point_from_scalar(isk),
         ccc |-> ccc, cci |-> cci, account |-> AccountDefault]

\* lines 25-49
ChildKeysPrivate_root(seed) ==
    LET mac_value == HMAC_mac(seed, "NSSA_master_priv")
    IN  ChildKeysPrivate(first_chunk(mac_value), last_chunk(mac_value), None)

\* a derivation that draws on what was derived before
ChildKeysPrivate_n_th_child_salted(self, cci) == ChildKeysPrivate(first_chunk(HMAC_mac(<<cci, Cardinality(DOMAIN key_map)>>, self.ccc)), last_chunk(self.ccc), Some(cci))

\* lines 51-84
ChildKeysPrivate_n_th_child(self, cci) ==
    LET parent_pt == <<"add", self.ovk, <<"mul", self.nsk, self.isk>>>>
        input == <<"NSSA_seed_priv", parent_pt>> \o le_bytes(cci, 4)
        mac_value == HMAC_mac(input, self.ccc)
    IN  ChildKeysPrivate(first_chunk(mac_value), last_chunk(mac_value), Some(cci))

(***************************************************************************)
(* ChainIndex (key_protocol/src/key_management/key_tree/chain_index.rs).   *)
(* A string is kept as the sequence of its characters.                     *)
(***************************************************************************)
HexAlphabet ==
    <<"0", "1", "2", "3", "4", "5", "6", "7", "8", "9", "a", "b", "c", "d", "e", "f">>

\* the digits of the model
HexDigits == {HexAlphabet[i] : i \in 1 .. HexRadix}

RECURSIVE hex_encode(_)
\* hex::encode: two lower-case digits for a byte, the high digit first
hex_encode(bytes) ==
    IF bytes = <<>> THEN <<>>
    ELSE <<HexAlphabet[(Head(bytes) \div HexRadix) + 1], HexAlphabet[(Head(bytes) % HexRadix) + 1]>>
            \o hex_encode(Tail(bytes))

\* the value of a digit
hex_val(c) == (CHOOSE i \in 1 .. HexRadix : HexAlphabet[i] = c) - 1

RECURSIVE hex_decode_from(_, _)
hex_decode_from(s, k) ==
    IF k > Len(s) THEN Ok(<<>>)
    ELSE IF s[k] \notin HexDigits \/ s[k + 1] \notin HexDigits
         THEN Err("InvalidHexCharacter")
         ELSE LET rest == hex_decode_from(s, k + 2)
              IN  IF rest.is_err THEN rest
                  ELSE Ok(<<hex_val(s[k]) * HexRadix + hex_val(s[k + 1])>> \o rest.value)

\* hex::decode: a string of odd length is refused first
hex_decode(s) ==
    IF Len(s) % 2 # 0 THEN Err("OddLength") ELSE hex_decode_from(s, 1)

\* lines 11-34
ChainIndex_from_str(s) ==
    IF s = <<>> THEN Ok(<<>>)
    ELSE LET hex_decoded == hex_decode(s)
         IN  IF hex_decoded.is_err THEN hex_decoded
             ELSE IF Len(hex_decoded.value) % 4 # 0 THEN Err("InvalidStringLength")
             ELSE Ok([i \in 1 .. Len(hex_decoded.value) \div 4 |->
                        from_le_bytes(SubSeq(hex_decoded.value, 4 * i - 3, 4 * i))])

RECURSIVE chain_bytes(_)
\* lines 44-48: the bytes of the components, one after the other
chain_bytes(chain) ==
    IF chain = <<>> THEN <<>> ELSE le_bytes(Head(chain), 4) \o chain_bytes(Tail(chain))

RECURSIVE reversed(_)
reversed(seq) == IF seq = <<>> THEN <<>> ELSE Append(reversed(Tail(seq)), Head(seq))

\* a text encoding that writes the bytes of the whole chain in reverse
ChainIndex_to_string_reversed(self) == hex_encode(reversed(chain_bytes(self)))

\* lines 39-51
ChainIndex_to_string(self) ==
    IF self = <<>> THEN <<>> ELSE hex_encode(chain_bytes(self))

\* lines 55-57
ChainIndex_root == ChainIndex_from_str(<<>>).value

\* u32 += 1: -1 when the addition panics
u32_increment(n) ==
    IF n + 1 >= U32Modulus /\ overflow_checks THEN -1 ELSE (n + 1) % U32Modulus

\* lines 63-71
ChainIndex_next_in_line(self) ==
    IF self = <<>> THEN [panic |-> FALSE, value |-> self]
    ELSE LET last_p == u32_increment(self[Len(self)])
         IN  IF last_p = -1 THEN [panic |-> TRUE, value |-> <<>>]
             ELSE [panic |-> FALSE, value |-> [self EXCEPT ![Len(self)] = last_p]]

\* lines 73-78
ChainIndex_n_th_child(self, child_id) == Append(self, child_id)

(***************************************************************************)
(* Commitments and ciphertexts: the functions applied to bounded inputs.   *)
(***************************************************************************)
SharedSecrets == 1 .. MaxSharedSecret

NullifierPublicKeys == {NullifierPublicKey_from(nsk) : nsk \in 1 .. MaxNsk}

\* the commitments a ciphertext is bound to
Commitments == {Commitment_new(npk, AccountDefault) : npk \in NullifierPublicKeys}

OutputIndexes == 0 .. MaxOutputIndex

NoteInit ==
    /\ n_call = [op |-> "none"]
    /\ n_result = None

CommitmentNew ==
    \E npk \in NullifierPublicKeys, account \in Account :
        /\ n_call.op = "none"
        /\ n_call' = [op |-> "Commitment::new", npk |-> npk, account |-> account]
        /\ n_result' = Commitment_new(npk, account)
        /\ UNCHANGED <<overflow_checks, validatorVars, treeVars, circuitVars, merkleVars, keyVars, stateVars, blobVars, nodeVars>>

CiphertextNew ==
    \E account \in Account, shared_secret \in SharedSecrets, npk \in NullifierPublicKeys :
        \E commitment \in Commitments, output_index \in OutputIndexes :
            /\ n_call.op = "none"
            /\ n_call' = [op |-> "Ciphertext::new", account |-> account,
                          shared_secret |-> shared_secret, npk |-> npk,
                          commitment |-> commitment, output_index |-> output_index]
            /\ n_result' = Ciphertext_new(account, shared_secret, npk, commitment, output_index)
            /\ UNCHANGED <<overflow_checks, validatorVars, treeVars, circuitVars, merkleVars, keyVars, stateVars, blobVars, nodeVars>>

\* the ciphertext of the last Ciphertext::new is decrypted, under the same
\* or under other parameters
CiphertextDecrypt ==
    /\ n_call.op = "Ciphertext::new"
    /\ \E shared_secret \in SharedSecrets, npk \in NullifierPublicKeys :
          \E commitment \in Commitments, output_index \in OutputIndexes :
              /\ n_call' = [op |-> "Ciphertext::decrypt", sent |-> n_call,
                            shared_secret |-> shared_secret, npk |-> npk,
                            commitment |-> commitment, output_index |-> output_index]
              /\ n_result' = Ciphertext_decrypt(n_result, shared_secret, npk, commitment, output_index)
    /\ UNCHANGED <<overflow_checks, validatorVars, treeVars, circuitVars, merkleVars, keyVars, stateVars, blobVars, nodeVars>>

(***************************************************************************)
(* Keys and chain indexes: the functions applied to bounded inputs.        *)
(***************************************************************************)
Seeds == 1 .. MaxSeed

\* components of a chain index: the small ones, those around the first
\* carry into the second byte, and the largest u32
ChainWords == {0, 1, ByteModulus, ByteModulus + 1, U32Modulus - 1}

ChainIndexes == UNION {[1 .. n -> ChainWords] : n \in 0 .. MaxDepth}

\* the strings handed to from_str: digits and a character that is no digit
Strings == UNION {[1 .. n -> HexDigits \cup {"g"}] : n \in 0 .. MaxStringLen}

KeyInit ==
    /\ k_call = [op |-> "none"]
    /\ k_result = None
    /\ key_map = <<>>

\* both sides of a key agreement: the sender holds the ephemeral secret key,
\* the receiver the viewing secret key
KeyAgreement ==
    /\ k_call.op = "none"
    /\ \E esk \in Scalars, vsk \in Scalars, ripk \in Scalars :
          /\ k_call' = [op |-> "key_agreement", ephemeral_secret_key |-> esk,
                        viewing_secret_key |-> vsk,
                        receiver_incoming_viewing_public_key |-> ripk]
          /\ k_result' =
                [sender |-> calculate_shared_secret_sender(Scalar(esk), Scalar(ripk)),
                 receiver |-> calculate_shared_secret_receiver(
                                  Scalar(vsk), generate_ephemeral_public_key(Scalar(esk))),
                 sender_key |-> SharedSecretKey_new(esk, Secp256k1Point_from_scalar(vsk)),
                 receiver_key |-> SharedSecretKey_new(vsk, Secp256k1Point_from_scalar(esk))]
    /\ UNCHANGED <<key_map, overflow_checks, validatorVars, treeVars, circuitVars, merkleVars, noteVars, stateVars, blobVars, nodeVars>>

KeyTreeRoot ==
    /\ k_call.op = "none"
    /\ \E seed \in Seeds :
          /\ k_call' = [op |-> "root", seed |-> seed, again |-> FALSE]
          /\ k_result' = ChildKeysPrivate_root(seed)
          /\ key_map' = (<<>> :> ChildKeysPrivate_root(seed))
    /\ UNCHANGED <<overflow_checks, validatorVars, treeVars, circuitVars, merkleVars, noteVars, stateVars, blobVars, nodeVars>>

\* a child of a node derived before is derived, for the first time or again
KeyTreeNthChild ==
    /\ k_call.op \in {"root", "n_th_child"}
    /\ \E parent \in DOMAIN key_map, cci \in 0 .. MaxChildIndex :
          LET child == ChildKeysPrivate_n_th_child(key_map[parent], cci)
              index == ChainIndex_n_th_child(parent, cci)
          IN  /\ Len(parent) < MaxDepth
              /\ k_call' = [op |-> "n_th_child", seed |-> k_call.seed, parent |-> parent,
                            cci |-> cci, again |-> index \in DOMAIN key_map]
              /\ k_result' = child
              /\ key_map' = (index :> child) @@ key_map
    /\ UNCHANGED <<overflow_checks, validatorVars, treeVars, circuitVars, merkleVars, noteVars, stateVars, blobVars, nodeVars>>

ChainIndexToString ==
    /\ k_call.op = "none"
    /\ \E chain \in ChainIndexes :
          /\ k_call' = [op |-> "to_string", chain |-> chain]
          /\ k_result' = [string |-> ChainIndex_to_string(chain),
                          parsed |-> ChainIndex_from_str(ChainIndex_to_string(chain))]
    /\ UNCHANGED <<key_map, overflow_checks, validatorVars, treeVars, circuitVars, merkleVars, noteVars, stateVars, blobVars, nodeVars>>

ChainIndexFromStr ==
    /\ k_call.op = "none"
    /\ \E s \in Strings :
          /\ k_call' = [op |-> "from_str", s |-> s]
          /\ k_result' = ChainIndex_from_str(s)
    /\ UNCHANGED <<key_map, overflow_checks, validatorVars, treeVars, circuitVars, merkleVars, noteVars, stateVars, blobVars, nodeVars>>

ChainIndexNextInLine ==
    /\ k_call.op = "none"
    /\ \E chain \in ChainIndexes :
          /\ k_call' = [op |-> "next_in_line", chain |-> chain]
          /\ k_result' = ChainIndex_next_in_line(chain)
    /\ UNCHANGED <<key_map, overflow_checks, validatorVars, treeVars, circuitVars, merkleVars, noteVars, stateVars, blobVars, nodeVars>>

ChainIndexNthChild ==
    /\ k_call.op = "none"
    /\ \E chain \in ChainIndexes, child_id \in ChainWords :
          /\ k_call' = [op |-> "n_th_child_index", chain |-> chain, child_id |-> child_id]
          /\ k_result' = ChainIndex_n_th_child(chain, child_id)
    /\ UNCHANGED <<key_map, overflow_checks, validatorVars, treeVars, circuitVars, merkleVars, noteVars, stateVars, blobVars, nodeVars>>

(***************************************************************************)
(* V01State and public transactions (nssa/src/state.rs,                    *)
(* nssa/src/public_transaction/transaction.rs).  The public state maps     *)
(* every address to its account, Account::default() where the HashMap has  *)
(* no entry.  A transaction is [message: [program_id, addresses, nonces],  *)
(* witness_set: [signatures_and_public_keys, valid]]; a public key is kept *)
(* as the address it stands for.                                           *)
(***************************************************************************)
Addresses == 1 .. MaxAddress

\* the only built-in program: the authenticated transfer program
AUTHENTICATED_TRANSFER_PROGRAM_ID == 1

builtin_programs == {AUTHENTICATED_TRANSFER_PROGRAM_ID}

RECURSIVE genesis_from(_, _, _)
genesis_from(state, initial_data, k) ==
    IF k > Len(initial_data) THEN state
    ELSE genesis_from(
             [state EXCEPT ![initial_data[k][1]] =
                 [AccountDefault EXCEPT !.balance = initial_data[k][2],
                                        !.program_owner = AUTHENTICATED_TRANSFER_PROGRAM_ID]],
             initial_data, k + 1)

\* state.rs lines 13-37
new_with_genesis_accounts(initial_data) ==
    genesis_from([address \in Addresses |-> AccountDefault], initial_data, 1)

\* state.rs lines 66-71
get_account_by_address(state, address) == state[address]

\* transaction.rs lines 38-43
signer_addresses(tx) == tx.witness_set.signatures_and_public_keys

NssaError_InvalidInput == Err("InvalidInput")

NssaError_ProgramExecutionFailed == Err("ProgramExecutionFailed")

NssaError_InvalidProgramBehavior == Err("InvalidProgramBehavior")

\* a call that panics returns nothing
Panicking == [is_err |-> FALSE, err |-> "panic", value |-> <<>>]

\* transaction.rs lines 89-96
pre_states_of(tx, state) ==
    [i \in 1 .. Len(tx.message.addresses) |->
        AccountWithMetadata(
            get_account_by_address(state, tx.message.addresses[i]),
            \E k \in 1 .. Len(signer_addresses(tx)) :
                signer_addresses(tx)[k] = tx.message.addresses[i],
            tx.message.addresses[i])]

\* the smaller of two lengths: zip stops at the end of the shorter list
zip_len(a, b) == IF Len(a) < Len(b) THEN Len(a) ELSE Len(b)

\* validation without the comparison of the nonces
validate_and_compute_post_states_any_nonce(tx, state, execution) ==
    IF Len(tx.message.addresses) # Cardinality({tx.message.addresses[i] : i \in 1 .. Len(tx.message.addresses)}) \/ Len(tx.message.nonces) # Len(tx.witness_set.signatures_and_public_keys) \/ ~ tx.witness_set.valid \/ tx.message.program_id \notin builtin_programs THEN NssaError_InvalidInput
    ELSE IF execution.is_err THEN NssaError_ProgramExecutionFailed
    ELSE IF validate_execution(pre_states_of(tx, state), execution.value, tx.message.program_id) # "true" THEN NssaError_InvalidProgramBehavior
    ELSE Ok([i \in 1 .. Len(tx.message.addresses) |-> <<tx.message.addresses[i], execution.value[i]>>])

\* transaction.rs lines 52-114; execution is what program.execute returns
\* for the pre-states
validate_and_compute_post_states(tx, state, execution) ==
    LET message == tx.message
        witness_set == tx.witness_set
        addresses == message.addresses
        signers == signer_addresses(tx)
        pre_states == pre_states_of(tx, state)
    IN  IF Cardinality({addresses[i] : i \in 1 .. Len(addresses)}) # Len(addresses)
        THEN NssaError_InvalidInput
        ELSE IF Len(message.nonces) # Len(witness_set.signatures_and_public_keys)
        THEN NssaError_InvalidInput
        ELSE IF ~ witness_set.valid
        THEN NssaError_InvalidInput
        ELSE IF \E k \in 1 .. zip_len(signers, message.nonces) :
                    get_account_by_address(state, signers[k]).nonce # message.nonces[k]
        THEN NssaError_InvalidInput
        ELSE IF message.program_id \notin builtin_programs
        THEN NssaError_InvalidInput
        ELSE IF execution.is_err
        THEN NssaError_ProgramExecutionFailed
        ELSE LET valid == validate_execution(pre_states, execution.value, message.program_id)
             IN  IF valid = "panic" THEN Panicking
                 ELSE IF valid = "false" THEN NssaError_InvalidProgramBehavior
                 ELSE Ok([i \in 1 .. zip_len(addresses, execution.value) |->
                            <<addresses[i], execution.value[i]>>])

RECURSIVE apply_state_diff(_, _, _)
\* state.rs lines 49-52
apply_state_diff(state, state_diff, k) ==
    IF k > Len(state_diff) THEN state
    ELSE apply_state_diff([state EXCEPT ![state_diff[k][1]] = state_diff[k][2]],
                          state_diff, k + 1)

RECURSIVE increment_nonces(_, _, _)
\* state.rs lines 54-57: the loop stops where the addition panics
increment_nonces(state, signers, k) ==
    IF k > Len(signers) THEN [state |-> state, result |-> Ok(<<>>)]
    ELSE LET nonce == u128_increment(state[signers[k]].nonce)
         IN  IF nonce = -1 THEN [state |-> state, result |-> Panicking]
             ELSE increment_nonces([state EXCEPT ![signers[k]].nonce = nonce], signers, k + 1)

\* a transition that counts the signatures before it validates
transition_counting_first(state, tx, execution) == [state |-> increment_nonces(state, signer_addresses(tx), 1).state, result |-> validate_and_compute_post_states(tx, state, execution)]

\* state.rs lines 43-60
transition_from_public_transaction(state, tx, execution) ==
    LET state_diff == validate_and_compute_post_states(tx, state, execution)
    IN  IF state_diff.is_err \/ state_diff = Panicking
        THEN [state |-> state, result |-> state_diff]
        ELSE increment_nonces(apply_state_diff(state, state_diff.value, 1),
                              signer_addresses(tx), 1)

\* the lists of up to two addresses, repetitions included
AddressLists == UNION {[1 .. n -> Addresses] : n \in 0 .. MaxAddress}

NonceLists == UNION {[1 .. n -> 0 .. U128Modulus - 1] : n \in 0 .. MaxAddress}

InitialData == UNION {[1 .. n -> Addresses \X (0 .. U128Modulus - 1)] : n \in 0 .. MaxGenesis}

\* authenticated_transfer.rs lines 6-27: a guest that returns without
\* writing its outputs gives the host nothing to decode
initialize_account(pre_states) ==
    IF Len(pre_states) # 1 THEN Err("ProgramExecutionFailed")
    ELSE IF pre_states[1].account # AccountDefault THEN Err("ProgramExecutionFailed")
    ELSE IF ~ pre_states[1].is_authorized THEN Err("ProgramExecutionFailed")
    ELSE Ok(<<pre_states[1].account>>)

\* authenticated_transfer.rs lines 29-53; guest_checks: the guest is built
\* with overflow checks, and receiver_post.balance += balance_to_move panics
\* where it would wrap otherwise
transfer(pre_states, balance_to_move, guest_checks) ==
    IF Len(pre_states) # 2 THEN Err("ProgramExecutionFailed")
    ELSE LET sender == pre_states[1]
             receiver == pre_states[2]
         IN  IF ~ sender.is_authorized THEN Err("ProgramExecutionFailed")
             ELSE IF sender.account.balance < balance_to_move
             THEN Err("ProgramExecutionFailed")
             ELSE IF guest_checks /\ receiver.account.balance + balance_to_move >= U128Modulus
             THEN Err("ProgramExecutionFailed")
             ELSE Ok(<<[sender.account EXCEPT !.balance = @ - balance_to_move],
                       [receiver.account EXCEPT
                           !.balance = (@ + balance_to_move) % U128Modulus]>>)

\* authenticated_transfer.rs lines 57-70
authenticated_transfer(pre_states, balance_to_move, guest_checks) ==
    IF Len(pre_states) = 1 /\ balance_to_move = 0 THEN initialize_account(pre_states)
    ELSE IF Len(pre_states) = 2 THEN transfer(pre_states, balance_to_move, guest_checks)
    ELSE Err("ProgramExecutionFailed")

\* what program.execute may return for the pre-states: the output of the
\* guest of the program for an instruction, or an error of the executor; the
\* authenticated transfer program is the only program a state holds
Executions(pre_states, program_id) ==
    IF program_id # AUTHENTICATED_TRANSFER_PROGRAM_ID THEN {Err("ProgramExecutionFailed")}
    ELSE {authenticated_transfer(pre_states, balance_to_move, guest_checks) :
             balance_to_move \in 0 .. U128Modulus - 1, guest_checks \in BOOLEAN}
             \cup {Err("ProgramExecutionFailed")}

StateInit ==
    /\ \E initial_data \in InitialData : public_state = new_with_genesis_accounts(initial_data)
    /\ s_tx = None
    /\ s_result = None
    /\ s_calls = 0
    /\ s_applied = {}

\* a transaction is handed to the state; after a call that failed the state
\* is the one before it, and the calls from that state are explored already.
\* A transaction of an unknown program is taken with valid signatures only:
\* the signatures are looked at first
TransitionFromPublicTransaction ==
    /\ s_calls < MaxCalls
    /\ s_tx = None \/ s_result = Ok(<<>>)
    /\ \E addresses \in AddressLists, signers \in AddressLists, nonces \in NonceLists :
          \E program_id \in ProgramIds, valid \in BOOLEAN :
              LET tx == [message |-> [program_id |-> program_id, addresses |-> addresses,
                                      nonces |-> nonces],
                         witness_set |-> [signatures_and_public_keys |-> signers,
                                          valid |-> valid]]
              IN  /\ valid \/ program_id \in builtin_programs
                  /\ \E execution \in Executions(pre_states_of(tx, public_state), program_id) :
                      LET made == transition_from_public_transaction(public_state, tx, execution)
                      IN  /\ public_state' = made.state
                          /\ s_tx' = Some(tx)
                          /\ s_result' = made.result
                          /\ s_applied' = IF made.result = Ok(<<>>)
                                          THEN s_applied \cup {tx} ELSE s_applied
    /\ s_calls' = s_calls + 1
    /\ UNCHANGED <<overflow_checks, validatorVars, treeVars, circuitVars, merkleVars, noteVars, keyVars, blobVars, nodeVars>>

\* a transaction the state has applied is handed to it once more
ResubmitPublicTransaction ==
    /\ s_calls <= MaxCalls
    /\ s_result = Ok(<<>>)
    /\ \E tx \in s_applied :
          \E execution \in Executions(pre_states_of(tx, public_state), tx.message.program_id) :
              LET made == transition_from_public_transaction(public_state, tx, execution)
              IN  /\ public_state' = made.state
                  /\ s_tx' = Some(tx)
                  /\ s_result' = made.result
    /\ s_calls' = s_calls + 1
    /\ UNCHANGED <<s_applied, overflow_checks, validatorVars, treeVars, circuitVars, merkleVars, noteVars, keyVars, blobVars, nodeVars>>

(***************************************************************************)
(* PrivateDataBlob and PrivateSCState                                      *)
(* (sc_core/src/private_state/private_state_storage.rs).                   *)
(***************************************************************************)
PrivateDataBlobError_DataDoesNotFit(data_len) == Err(<<"DataDoesNotFit", data_len>>)

PrivateStateError_EmptyWrite == Err(<<"EmptyWrite">>)

\* #[from] PrivateDataBlobError
PrivateStateError_PrivateDataBlobError(error) == Err(<<"PrivateDataBlobError", error.err>>)

\* [0; PRIVATE_BLOB_SIZE]
zero_blob == [idx \in 1 .. PRIVATE_BLOB_SIZE |-> 0]

RECURSIVE blob_from_items(_, _, _)
\* for (idx, item) in data.into_iter().enumerate() { blob.0[idx] = item }:
\* writing at an index outside of the array panics
blob_from_items(blob, data, idx) ==
    IF idx > Len(data) THEN Ok(blob)
    ELSE IF idx > PRIVATE_BLOB_SIZE THEN Panicking
    ELSE blob_from_items([blob EXCEPT ![idx] = data[idx]], data, idx + 1)

try_produce_blob_from_fit_vec(data) ==
    LET data_len == Len(data)
    IN  IF data_len <= PRIVATE_BLOB_SIZE
        THEN PrivateDataBlobError_DataDoesNotFit(data_len)
        ELSE blob_from_items(zero_blob, data, 1)

try_produce_blob_from_fit_slice(data) ==
    LET data_len == Len(data)
    IN  IF data_len <= PRIVATE_BLOB_SIZE
        THEN PrivateDataBlobError_DataDoesNotFit(data_len)
        ELSE blob_from_items(zero_blob, data, 1)

\* *state.keys().max().unwrap_or(&0)
max_slot(state) ==
    IF DOMAIN state = {} THEN 0
    ELSE CHOOSE slot \in DOMAIN state : \A other \in DOMAIN state : other <= slot

\* &bytes[from..to], the bytes at the positions from .. to - 1 counted from 0
slice(bytes, from, to) == [k \in 1 .. to - from |-> bytes[from + k]]

RECURSIVE write_blobs(_, _, _, _)
\* the loop and the last blob of write_num_bytes_append and of
\* write_num_bytes_rewrite: [state, result], the state as the call leaves it
write_blobs(state, bytes, curr, curr_slot) ==
    LET more == curr + PRIVATE_BLOB_SIZE < Len(bytes)
        data_blob == try_produce_blob_from_fit_slice(
                         IF more THEN slice(bytes, curr, curr + PRIVATE_BLOB_SIZE)
                         ELSE slice(bytes, curr, Len(bytes)))
    IN  IF data_blob.is_err
        THEN [state |-> state, result |-> PrivateStateError_PrivateDataBlobError(data_blob)]
        ELSE IF data_blob = Panicking THEN [state |-> state, result |-> Panicking]
        ELSE IF more
        THEN write_blobs(MapInsert(state, curr_slot, data_blob.value), bytes,
                         curr + PRIVATE_BLOB_SIZE, curr_slot + 1)
        ELSE [state |-> MapInsert(state, curr_slot, data_blob.value),
              result |-> Ok(curr_slot)]

write_num_bytes_append(state, bytes) ==
    IF bytes = <<>> THEN [state |-> state, result |-> PrivateStateError_EmptyWrite]
    ELSE write_blobs(state, bytes, 0, max_slot(state) + 1)

write_num_bytes_rewrite(state, bytes, offset) ==
    IF bytes = <<>> THEN [state |-> state, result |-> PrivateStateError_EmptyWrite]
    ELSE write_blobs(state, bytes, 0, offset)

ByteSequences == UNION {[1 .. n -> {0, 1}] : n \in 0 .. MaxBytesLen}

\* a private state is empty or holds blobs in the slots up to MaxSlot
BlobInit ==
    /\ \E slots \in SUBSET (0 .. MaxSlot) : private_state = [slot \in slots |-> zero_blob]
    /\ b_call = [op |-> "none"]
    /\ b_result = None

TryProduceBlobFromFitVec ==
    /\ b_call.op = "none"
    /\ \E data \in ByteSequences :
          /\ b_call' = [op |-> "try_produce_blob_from_fit_vec", data |-> data]
          /\ b_result' = try_produce_blob_from_fit_vec(data)
    /\ UNCHANGED <<private_state, overflow_checks, validatorVars, treeVars, circuitVars, merkleVars, noteVars, keyVars, stateVars, nodeVars>>

TryProduceBlobFromFitSlice ==
    /\ b_call.op = "none"
    /\ \E data \in ByteSequences :
          /\ b_call' = [op |-> "try_produce_blob_from_fit_slice", data |-> data]
          /\ b_result' = try_produce_blob_from_fit_slice(data)
    /\ UNCHANGED <<private_state, overflow_checks, validatorVars, treeVars, circuitVars, merkleVars, noteVars, keyVars, stateVars, nodeVars>>

WriteNumBytesAppend ==
    /\ b_call.op = "none"
    /\ \E bytes \in ByteSequences :
          LET made == write_num_bytes_append(private_state, bytes)
          IN  /\ b_call' = [op |-> "write_num_bytes_append", data |-> bytes]
              /\ b_result' = made.result
              /\ private_state' = made.state
    /\ UNCHANGED <<overflow_checks, validatorVars, treeVars, circuitVars, merkleVars, noteVars, keyVars, stateVars, nodeVars>>

WriteNumBytesRewrite ==
    /\ b_call.op = "none"
    /\ \E bytes \in ByteSequences, offset \in 0 .. MaxSlot :
          LET made == write_num_bytes_rewrite(private_state, bytes, offset)
          IN  /\ b_call' = [op |-> "write_num_bytes_rewrite", data |-> bytes, offset |-> offset]
              /\ b_result' = made.result
              /\ private_state' = made.state
    /\ UNCHANGED <<overflow_checks, validatorVars, treeVars, circuitVars, merkleVars, noteVars, keyVars, stateVars, nodeVars>>

(***************************************************************************)
(* NodeChainStore and the chain updater of NodeCore                        *)
(* (node_core/src/storage/mod.rs, node_core/src/lib.rs).                   *)
(***************************************************************************)
\* the transactions of the model, by the hashes they create
NodeTransactions ==
    {[utxo_commitments_created_hashes |-> <<1>>, nullifier_created_hashes |-> <<>>],
     [utxo_commitments_created_hashes |-> <<2>>, nullifier_created_hashes |-> <<1>>]}

TransactionLists == UNION {[1 .. n -> NodeTransactions] : n \in 0 .. MaxBlockTxs}

NodeBlock(block_id, transactions) ==
    [block_id |-> block_id, transactions |-> transactions]

\* NodeChainStore::new_with_genesis: empty stores and a block store opened
\* with the genesis block
new_with_genesis(genesis_block) ==
    [utxo_commitments_store |-> <<>>,
     nullifier_store |-> {},
     pub_tx_store |-> <<>>,
     block_store |-> {genesis_block}]

RECURSIVE dissect_insert_transactions(_, _, _, _)
\* the loop over block.transactions; fail_at = i: the database fails the
\* insert_items of transaction i, which leaves through ? after
\* add_tx_multiple has run
dissect_insert_transactions(store, transactions, fail_at, i) ==
    IF i > Len(transactions) THEN [store |-> store, result |-> Ok(<<>>)]
    ELSE LET tx == transactions[i]
             with_commitments ==
                 [store EXCEPT !.utxo_commitments_store =
                                   @ \o tx.utxo_commitments_created_hashes]
         IN  IF fail_at = i THEN [store |-> with_commitments, result |-> Err("db")]
             ELSE dissect_insert_transactions(
                      [with_commitments EXCEPT
                           !.nullifier_store =
                               @ \cup {tx.nullifier_created_hashes[k] :
                                          k \in 1 .. Len(tx.nullifier_created_hashes)},
                           !.pub_tx_store = Append(@, tx)],
                      transactions, fail_at, i + 1)

\* fail_at = Len(block.transactions) + 1: the database fails put_block_at_id
dissect_insert_block(store, block, fail_at) ==
    LET looped == dissect_insert_transactions(store, block.transactions, fail_at, 1)
    IN  IF looped.result.is_err THEN looped
        ELSE IF fail_at = Len(block.transactions) + 1
        THEN [store |-> looped.store, result |-> Err("db")]
        ELSE [store |-> [looped.store EXCEPT !.block_store = @ \cup {block}],
              result |-> Ok(<<>>)]

\* where the database can fail a call: 0 for nowhere, the insert_items of
\* a transaction that creates nullifiers, the put of the block
FailPoints(block) ==
    {0} \cup {i \in 1 .. Len(block.transactions) :
                 block.transactions[i].nullifier_created_hashes # <<>>}
        \cup {Len(block.transactions) + 1}

\* SequencerClient::get_block: the block the sequencer keeps under the id
get_block(chain_blocks, block_id) ==
    IF block_id - GenesisId \in 1 .. Len(chain_blocks)
    THEN Ok(chain_blocks[block_id - GenesisId])
    ELSE Err("no block")

RECURSIVE update_chain(_, _, _)
\* the chain update loop of start_from_config_update_chain, run before the
\* storage is shared; a failed insert returns Err and no NodeCore is made
update_chain(store, chain_blocks, chain_height) ==
    LET block == get_block(chain_blocks, chain_height + 1)
    IN  IF block.is_err THEN [storage |-> store, chain_height |-> chain_height]
        ELSE update_chain(dissect_insert_block(store, block.value, 0).store,
                          chain_blocks, chain_height + 1)

\* a lock that returns while another task holds the mutex
lock_without_waiting(holder) == holder \in {"none", "updater", "reader"}

\* tokio's Mutex::lock returns when no task holds the mutex
lock(holder) == holder = "none"

StartupChains ==
    UNION {{[i \in 1 .. n |-> NodeBlock(GenesisId + i, lists[i])] :
               lists \in [1 .. n -> TransactionLists]} : n \in 0 .. MaxStartup}

\* the state start_from_config_update_chain returns with Ok
NodeInit ==
    /\ sequencer_chain \in StartupChains
    /\ LET started == update_chain(new_with_genesis(NodeBlock(GenesisId, <<>>)),
                                   sequencer_chain, GenesisId)
       IN  /\ storage = started.storage
           /\ curr_height = started.chain_height
    /\ storage_lock = "none"
    /\ updater = [pc |-> "load", next_block |-> 0, block |-> None, before |-> None]
    /\ reader = [pc |-> "idle", hash |-> 0, commitment_in |-> None]
    /\ inserted_blocks = [i \in 1 .. Len(sequencer_chain) |-> GenesisId + i]

\* the sequencer produces the next block
SequencerProduce ==
    /\ Len(sequencer_chain) < MaxHeight
    /\ \E transactions \in TransactionLists :
          sequencer_chain' =
              Append(sequencer_chain,
                     NodeBlock(GenesisId + Len(sequencer_chain) + 1, transactions))
    /\ UNCHANGED <<storage, storage_lock, curr_height, updater, reader, inserted_blocks>>
    /\ UNCHANGED <<overflow_checks, validatorVars, treeVars, circuitVars, merkleVars, noteVars, keyVars, stateVars, blobVars>>

\* let next_block = wrapped_chain_height_thread.load(Ordering::Relaxed) + 1
UpdaterLoad ==
    /\ updater.pc = "load"
    /\ updater' = [updater EXCEPT !.pc = "get_block", !.next_block = curr_height + 1]
    /\ UNCHANGED <<sequencer_chain, storage, storage_lock, curr_height, reader, inserted_blocks>>
    /\ UNCHANGED <<overflow_checks, validatorVars, treeVars, circuitVars, merkleVars, noteVars, keyVars, stateVars, blobVars>>

\* if let Ok(block) = client_thread.get_block(next_block).await; the
\* request can fail for a block the sequencer has
UpdaterGetBlock ==
    /\ updater.pc = "get_block"
    /\ \E answered \in BOOLEAN :
          LET block == get_block(sequencer_chain, updater.next_block)
          IN  updater' = IF answered /\ ~ block.is_err
                         THEN [updater EXCEPT !.pc = "lock", !.block = Some(block.value)]
                         ELSE [updater EXCEPT !.pc = "sleep"]
    /\ UNCHANGED <<sequencer_chain, storage, storage_lock, curr_height, reader, inserted_blocks>>
    /\ UNCHANGED <<overflow_checks, validatorVars, treeVars, circuitVars, merkleVars, noteVars, keyVars, stateVars, blobVars>>

\* tokio::time::sleep(seq_poll_timeout_secs)
UpdaterSleep ==
    /\ updater.pc = "sleep"
    /\ updater' = [updater EXCEPT !.pc = "load"]
    /\ UNCHANGED <<sequencer_chain, storage, storage_lock, curr_height, reader, inserted_blocks>>
    /\ UNCHANGED <<overflow_checks, validatorVars, treeVars, circuitVars, merkleVars, noteVars, keyVars, stateVars, blobVars>>

\* let mut storage_guard = wrapped_storage_thread.lock().await
UpdaterLock ==
    /\ updater.pc = "lock"
    /\ lock(storage_lock)
    /\ storage_lock' = "updater"
    /\ updater' = [updater EXCEPT !.pc = "insert", !.before = Some(storage)]
    /\ UNCHANGED <<sequencer_chain, storage, curr_height, reader, inserted_blocks>>
    /\ UNCHANGED <<overflow_checks, validatorVars, treeVars, circuitVars, merkleVars, noteVars, keyVars, stateVars, blobVars>>

\* storage_guard.dissect_insert_block(block.block)?: an error ends the
\* task and drops the guard
UpdaterInsert ==
    /\ updater.pc = "insert"
    /\ \E fail_at \in FailPoints(updater.block[1]) :
          LET made == dissect_insert_block(storage, updater.block[1], fail_at)
          IN  /\ storage' = made.store
              /\ IF made.result.is_err
                 THEN /\ updater' = [updater EXCEPT !.pc = "failed"]
                      /\ storage_lock' = "none"
                      /\ UNCHANGED inserted_blocks
                 ELSE /\ updater' = [updater EXCEPT !.pc = "release"]
                      /\ inserted_blocks' =
                             Append(inserted_blocks, updater.block[1].block_id)
                      /\ UNCHANGED storage_lock
    /\ UNCHANGED <<sequencer_chain, curr_height, reader>>
    /\ UNCHANGED <<overflow_checks, validatorVars, treeVars, circuitVars, merkleVars, noteVars, keyVars, stateVars, blobVars>>

\* the end of the block that holds storage_guard
UpdaterRelease ==
    /\ updater.pc = "release"
    /\ storage_lock' = "none"
    /\ updater' = [updater EXCEPT !.pc = "store"]
    /\ UNCHANGED <<sequencer_chain, storage, curr_height, reader, inserted_blocks>>
    /\ UNCHANGED <<overflow_checks, validatorVars, treeVars, circuitVars, merkleVars, noteVars, keyVars, stateVars, blobVars>>

\* wrapped_chain_height_thread.store(next_block, Ordering::Relaxed)
UpdaterStore ==
    /\ updater.pc = "store"
    /\ curr_height' = updater.next_block
    /\ updater' = [updater EXCEPT !.pc = "load"]
    /\ UNCHANGED <<sequencer_chain, storage, storage_lock, reader, inserted_blocks>>
    /\ UNCHANGED <<overflow_checks, validatorVars, treeVars, circuitVars, merkleVars, noteVars, keyVars, stateVars, blobVars>>

\* transfer_utxo_private is called with a utxo
ReaderCall ==
    /\ reader.pc = "idle"
    /\ \E hash \in 1 .. MaxHash :
          reader' = [pc |-> "lock", hash |-> hash, commitment_in |-> None]
    /\ UNCHANGED <<sequencer_chain, storage, storage_lock, curr_height, updater, inserted_blocks>>
    /\ UNCHANGED <<overflow_checks, validatorVars, treeVars, circuitVars, merkleVars, noteVars, keyVars, stateVars, blobVars>>

\* let guard = self.storage.lock().await
ReaderLock ==
    /\ reader.pc = "lock"
    /\ lock(storage_lock)
    /\ storage_lock' = "reader"
    /\ reader' = [reader EXCEPT !.pc = "get_tx"]
    /\ UNCHANGED <<sequencer_chain, storage, curr_height, updater, inserted_blocks>>
    /\ UNCHANGED <<overflow_checks, validatorVars, treeVars, circuitVars, merkleVars, noteVars, keyVars, stateVars, blobVars>>

\* guard.utxo_commitments_store.get_tx(utxo.hash).unwrap().hash; the unwrap
\* of a hash that is not in the store panics, commitment_in stays None
ReaderGetTx ==
    /\ reader.pc = "get_tx"
    /\ reader' = [reader EXCEPT
                     !.pc = "release",
                     !.commitment_in =
                         IF \E k \in 1 .. Len(storage.utxo_commitments_store) :
                                storage.utxo_commitments_store[k] = reader.hash
                         THEN Some(reader.hash) ELSE None]
    /\ UNCHANGED <<sequencer_chain, storage, storage_lock, curr_height, updater, inserted_blocks>>
    /\ UNCHANGED <<overflow_checks, validatorVars, treeVars, circuitVars, merkleVars, noteVars, keyVars, stateVars, blobVars>>

\* the guard is dropped at the end of the block, or by the panic
ReaderRelease ==
    /\ reader.pc = "release"
    /\ storage_lock' = "none"
    /\ reader' = [reader EXCEPT !.pc = "idle"]
    /\ UNCHANGED <<sequencer_chain, storage, curr_height, updater, inserted_blocks>>
    /\ UNCHANGED <<overflow_checks, validatorVars, treeVars, circuitVars, merkleVars, noteVars, keyVars, stateVars, blobVars>>

(***************************************************************************)
(* Specifications: one per component, the other components stay idle.      *)
(***************************************************************************)
ValidatorIdle == ValidatorInit

TreeIdle == TreeInit

CircuitIdle == CircuitInit

MerkleIdle ==
    /\ index_map = <<>> /\ node_map = <<>> /\ capacity = 1
    /\ m_call = [op |-> "with_capacity", value |-> <<>>]
    /\ m_result = None
    /\ m_created = 0
    /\ m_inserted = <<>>

NoteIdle == NoteInit

KeyIdle == KeyInit

StateIdle ==
    /\ public_state = new_with_genesis_accounts(<<>>)
    /\ s_tx = None
    /\ s_result = None
    /\ s_calls = 0
    /\ s_applied = {}

BlobIdle ==
    /\ private_state = <<>>
    /\ b_call = [op |-> "none"]
    /\ b_result = None

NodeIdle ==
    /\ sequencer_chain = <<>>
    /\ storage = new_with_genesis(NodeBlock(GenesisId, <<>>))
    /\ storage_lock = "none"
    /\ curr_height = GenesisId
    /\ updater = [pc |-> "load", next_block |-> 0, block |-> None, before |-> None]
    /\ reader = [pc |-> "idle", hash |-> 0, commitment_in |-> None]
    /\ inserted_blocks = <<>>

InitValidator ==
    overflow_checks \in BOOLEAN /\ ValidatorInit /\ TreeIdle /\ CircuitIdle /\ MerkleIdle
        /\ NoteIdle /\ KeyIdle /\ StateIdle /\ BlobIdle /\ NodeIdle

NextValidator == ValidateExecutionCall

SpecValidator == InitValidator /\ [][NextValidator]_vars

InitTree ==
    overflow_checks = FALSE /\ ValidatorIdle /\ TreeInit /\ CircuitIdle /\ MerkleIdle
        /\ NoteIdle /\ KeyIdle /\ StateIdle /\ BlobIdle /\ NodeIdle

NextTree ==
    \/ InsertItem
    \/ InsertItems
    \/ SearchItemInclusion
    \/ SearchItemInclusions
    \/ GetNonMembershipProof
    \/ GetNonMembershipProofs

SpecTree == InitTree /\ [][NextTree]_vars

InitCircuit ==
    overflow_checks \in BOOLEAN /\ ValidatorIdle /\ TreeIdle /\ CircuitInit /\ MerkleIdle
        /\ NoteIdle /\ KeyIdle /\ StateIdle /\ BlobIdle /\ NodeIdle

NextCircuit == Main

SpecCircuit == InitCircuit /\ [][NextCircuit]_vars

InitMerkle ==
    overflow_checks = FALSE /\ ValidatorIdle /\ TreeIdle /\ CircuitIdle /\ MerkleInit
        /\ NoteIdle /\ KeyIdle /\ StateIdle /\ BlobIdle /\ NodeIdle

NextMerkle ==
    \/ Insert
    \/ GetAuthenticationPathFor

SpecMerkle == InitMerkle /\ [][NextMerkle]_vars

InitNote ==
    overflow_checks = FALSE /\ ValidatorIdle /\ TreeIdle /\ CircuitIdle /\ MerkleIdle
        /\ NoteInit /\ KeyIdle /\ StateIdle /\ BlobIdle /\ NodeIdle

NextNote ==
    \/ CommitmentNew
    \/ CiphertextNew
    \/ CiphertextDecrypt

SpecNote == InitNote /\ [][NextNote]_vars

InitKeys ==
    overflow_checks \in BOOLEAN /\ ValidatorIdle /\ TreeIdle /\ CircuitIdle /\ MerkleIdle
        /\ NoteIdle /\ KeyInit /\ StateIdle /\ BlobIdle /\ NodeIdle

NextKeys ==
    \/ KeyAgreement
    \/ KeyTreeRoot
    \/ KeyTreeNthChild
    \/ ChainIndexToString
    \/ ChainIndexFromStr
    \/ ChainIndexNextInLine
    \/ ChainIndexNthChild

SpecKeys == InitKeys /\ [][NextKeys]_vars

InitState ==
    overflow_checks \in BOOLEAN /\ ValidatorIdle /\ TreeIdle /\ CircuitIdle /\ MerkleIdle
        /\ NoteIdle /\ KeyIdle /\ StateInit /\ BlobIdle /\ NodeIdle

NextState ==
    \/ TransitionFromPublicTransaction
    \/ ResubmitPublicTransaction

SpecState == InitState /\ [][NextState]_vars

InitBlob ==
    overflow_checks = FALSE /\ ValidatorIdle /\ TreeIdle /\ CircuitIdle /\ MerkleIdle
        /\ NoteIdle /\ KeyIdle /\ StateIdle /\ BlobInit /\ NodeIdle

NextBlob ==
    \/ TryProduceBlobFromFitVec
    \/ TryProduceBlobFromFitSlice
    \/ WriteNumBytesAppend
    \/ WriteNumBytesRewrite

SpecBlob == InitBlob /\ [][NextBlob]_vars

InitNode ==
    overflow_checks = FALSE /\ ValidatorIdle /\ TreeIdle /\ CircuitIdle /\ MerkleIdle
        /\ NoteIdle /\ KeyIdle /\ StateIdle /\ BlobIdle /\ NodeInit

NextNode ==
    \/ SequencerProduce
    \/ UpdaterLoad
    \/ UpdaterGetBlock
    \/ UpdaterSleep
    \/ UpdaterLock
    \/ UpdaterInsert
    \/ UpdaterRelease
    \/ UpdaterStore
    \/ ReaderCall
    \/ ReaderLock
    \/ ReaderGetTx
    \/ ReaderRelease

SpecNode == InitNode /\ [][NextNode]_vars

(***************************************************************************)
(* Properties of validate_execution.                                       *)
(***************************************************************************)
RECURSIVE NatSum(_, _)
\* the sum of a sequence of naturals, without any width
NatSum(balances, i) ==
    IF i > Len(balances) THEN 0 ELSE balances[i] + NatSum(balances, i + 1)

PreBalanceTotal == NatSum([i \in 1 .. Len(v_pre_states) |-> v_pre_states[i].account.balance], 1)

PostBalanceTotal == NatSum([i \in 1 .. Len(v_post_states) |-> v_post_states[i].balance], 1)

Returned == v_pc = "returned"

SameLength == Len(v_pre_states) = Len(v_post_states)

\* the positions both lists have
Positions ==
    1 .. (IF Len(v_pre_states) < Len(v_post_states)
          THEN Len(v_pre_states) ELSE Len(v_post_states))

NonceChangedAt(i) == v_post_states[i].nonce # v_pre_states[i].account.nonce

OwnerChangedOnClaimedAt(i) ==
    /\ v_post_states[i].program_owner # v_pre_states[i].account.program_owner
    /\ v_pre_states[i].account # AccountDefault

BalanceLoweredByStrangerAt(i) ==
    /\ v_post_states[i].balance < v_pre_states[i].account.balance
    /\ v_pre_states[i].account.program_owner # v_executing_program_id

DataChangedByStrangerAt(i) ==
    /\ v_post_states[i].data # v_pre_states[i].account.data
    /\ (v_pre_states[i].account.program_owner # v_executing_program_id
          \/ v_post_states[i].program_owner # v_executing_program_id)

\* C4: whenever the sum of the pre-state balances differs from the sum of the
\* post-state balances, validate_execution returns false.
C4_UnbalancedRejected ==
    (Returned /\ SameLength /\ PreBalanceTotal # PostBalanceTotal) => v_result = "false"

\* C5: if the nonce of some post-state differs from the nonce of its
\* pre-state, validate_execution returns false.
C5_NonceChangeRejected ==
    (Returned /\ \E i \in Positions : NonceChangedAt(i)) => v_result = "false"

\* a call with equal lengths in which a nonce change is the only rule broken
C5_Witness ==
    /\ Returned /\ SameLength /\ Len(v_pre_states) = MaxLen
    /\ PreBalanceTotal = PostBalanceTotal
    /\ NonceChangedAt(MaxLen)
    /\ \A i \in Positions :
          /\ ~ OwnerChangedOnClaimedAt(i)
          /\ ~ BalanceLoweredByStrangerAt(i)
          /\ ~ DataChangedByStrangerAt(i)
    /\ v_result = "false"

\* C6: if some post-state has another owner than its pre-state while the
\* pre-state account is not the all-default account, validate_execution
\* returns false; a default owner with a balance, a nonce or data is no
\* all-default account.
C6_OwnerChangeRejected ==
    (Returned /\ \E i \in Positions : OwnerChangedOnClaimedAt(i)) => v_result = "false"

\* an account with the default owner and a non-zero nonce only is given an
\* owner, and nothing else is wrong with the call
C6_Witness ==
    /\ Returned /\ SameLength /\ Len(v_pre_states) = 1
    /\ v_pre_states[1].account = [AccountDefault EXCEPT !.nonce = 1]
    /\ v_post_states[1] = [v_pre_states[1].account EXCEPT !.program_owner = v_executing_program_id]
    /\ v_result = "false"

\* C7: if some post-state has a lower balance than its pre-state while the
\* pre-state is not owned by the executing program, validate_execution
\* returns false.
C7_BalanceDecreaseRejected ==
    (Returned /\ \E i \in Positions : BalanceLoweredByStrangerAt(i)) => v_result = "false"

\* balance moves out of an account of another program, the total is kept
\* and no other rule is broken
C7_Witness ==
    /\ Returned /\ SameLength /\ Len(v_pre_states) = MaxLen
    /\ PreBalanceTotal = PostBalanceTotal
    /\ \E i \in Positions : BalanceLoweredByStrangerAt(i)
    /\ \A i \in Positions :
          /\ ~ NonceChangedAt(i)
          /\ ~ OwnerChangedOnClaimedAt(i)
          /\ ~ DataChangedByStrangerAt(i)
    /\ v_result = "false"

\* C8: if some post-state has other data than its pre-state while the
\* pre-state owner or the post-state owner is not the executing program,
\* validate_execution returns false.
C8_DataChangeRejected ==
    (Returned /\ \E i \in Positions : DataChangedByStrangerAt(i)) => v_result = "false"

\* the executing program claims an unclaimed account and writes its data in
\* the same execution
C8_Witness ==
    /\ Returned /\ SameLength /\ Len(v_pre_states) = 1
    /\ v_pre_states[1].account = AccountDefault
    /\ v_post_states[1] =
          [AccountDefault EXCEPT !.program_owner = v_executing_program_id, !.data = <<1>>]
    /\ v_result = "false"

\* the six rules, stated on the arguments of the call
RulesKept ==
    /\ SameLength
    /\ \A i \in Positions :
          /\ ~ NonceChangedAt(i)
          /\ ~ OwnerChangedOnClaimedAt(i)
          /\ ~ BalanceLoweredByStrangerAt(i)
          /\ ~ DataChangedByStrangerAt(i)
    /\ PreBalanceTotal = PostBalanceTotal

\* C9: validate_execution returns true for every call that keeps the six
\* rules, and false for every call with lists of unequal length.
C9_RulesKeptAccepted ==
    Returned => /\ RulesKept => v_result = "true"
                /\ ~ SameLength => v_result = "false"

(***************************************************************************)
(* Properties of the nullifier set.                                        *)
(***************************************************************************)
ProofCall == t_call.op \in {"get_non_membership_proof", "get_non_membership_proofs"}

\* C1: once a hash has been inserted by an insert that returned Ok, every
\* get_non_membership_proof of it, and every get_non_membership_proofs whose
\* input contains it, returns an error.
C1_NoProofForInserted ==
    (ProofCall /\ \E i \in 1 .. Len(t_call.hashes) : t_call.hashes[i] \in inserted)
        => t_result.is_err

\* a batch whose second hash was inserted, asked after inserts of two hashes
\* and with a first hash never inserted
C1_Witness ==
    /\ t_call.op = "get_non_membership_proofs"
    /\ Len(t_call.hashes) = 2
    /\ t_call.hashes[1] \notin inserted
    /\ t_call.hashes[2] \in inserted
    /\ t_result = Err(ToString(t_call.hashes[2]) \o " Is a member")

(***************************************************************************)
(* Properties of the circuit, stated on its input and its committed output.*)
(***************************************************************************)
Committed == c_pc = "committed"

Mask == c_input.visibility_mask

ProgramPreStates == c_input.program_outputs[1].pre_states

ProgramPostStates == c_input.program_outputs[1].post_states

RECURSIVE MasksBefore(_, _)
\* how many positions before i have a mask in masks
MasksBefore(masks, i) ==
    IF i <= 1 THEN 0
    ELSE MasksBefore(masks, i - 1) + (IF Mask[i - 1] \in masks THEN 1 ELSE 0)

\* an account at position i is the k-th private account, k = PrivateIndex(i),
\* and, with mask 1, the AuthIndex(i)-th authenticated one
PrivateIndex(i) == MasksBefore({1, 2}, i) + 1

AuthIndex(i) == MasksBefore({1}, i) + 1

PrivateCount == MasksBefore({1, 2}, Len(Mask) + 1)

\* C2: a pass is committed only if, for every account with mask 1, the key
\* derived from its nsk is its npk and its pre-state is authorized; the
\* output then holds for it one pair: the update nullifier of the commitment
\* of (npk, pre-state account) under nsk, and the digest of that commitment
\* along the membership proof.
C2_AuthenticatedAccount ==
    Committed =>
        /\ Len(c_result.output.new_nullifiers) = PrivateCount
        /\ \A i \in 1 .. Len(Mask) :
              Mask[i] = 1 =>
                  /\ PrivateIndex(i) <= Len(c_input.private_account_keys)
                  /\ AuthIndex(i) <= Len(c_input.private_account_auth)
                  /\ LET npk == c_input.private_account_keys[PrivateIndex(i)].npk
                         auth == c_input.private_account_auth[AuthIndex(i)]
                         commitment_pre == Commitment_new(npk, ProgramPreStates[i].account)
                     IN  /\ NullifierPublicKey_from(auth.nsk) = npk
                         /\ ProgramPreStates[i].is_authorized
                         /\ c_result.output.new_nullifiers[PrivateIndex(i)] =
                               <<Nullifier_for_account_update(commitment_pre, auth.nsk),
                                 compute_digest_for_path(commitment_pre,
                                                         auth.membership_proof)>>

\* a committed pass over two accounts with mask 1
C2_Witness ==
    /\ Committed
    /\ Mask = <<1, 1>>
    /\ ProgramPreStates[2].account # AccountDefault

\* C3: a pass is committed only if, for every account with mask 2, the
\* pre-state account is Account::default() and not authorized; the output
\* then holds for it one pair: the initialization nullifier of its npk and
\* DUMMY_COMMITMENT_HASH; the account takes no entry of private_account_auth,
\* which has one entry for each account with mask 1.
C3_NewAccount ==
    Committed =>
        /\ Len(c_result.output.new_nullifiers) = PrivateCount
        /\ Len(c_input.private_account_auth) = MasksBefore({1}, Len(Mask) + 1)
        /\ \A i \in 1 .. Len(Mask) :
              Mask[i] = 2 =>
                  /\ PrivateIndex(i) <= Len(c_input.private_account_keys)
                  /\ ProgramPreStates[i].account = AccountDefault
                  /\ ~ ProgramPreStates[i].is_authorized
                  /\ c_result.output.new_nullifiers[PrivateIndex(i)] =
                        <<Nullifier_for_account_initialization(
                              c_input.private_account_keys[PrivateIndex(i)].npk),
                          DUMMY_COMMITMENT_HASH>>

\* a committed pass with a new account before an authenticated one
C3_Witness ==
    /\ Committed
    /\ Mask = <<2, 1>>
    /\ Len(c_input.private_account_auth) = 1

\* the post-state the circuit commits to for the private account at i
UpdatedPostState(i) ==
    [ProgramPostStates[i] EXCEPT
        !.nonce = c_input.private_account_nonces[PrivateIndex(i)],
        !.program_owner = IF @ = DEFAULT_PROGRAM_ID THEN c_input.program_id ELSE @]

\* C10: for the k-th private account of a committed pass, the k-th new
\* commitment is the commitment of (the k-th npk, the program's post-state
\* with the k-th nonce and a default owner replaced by the program id), and
\* the k-th ciphertext encrypts that post-state.
C10_PrivatePostState ==
    Committed =>
        /\ Len(c_result.output.new_commitments) = PrivateCount
        /\ Len(c_result.output.ciphertexts) = PrivateCount
        /\ \A i \in 1 .. Len(Mask) :
              Mask[i] \in {1, 2} =>
                  LET k == PrivateIndex(i)
                      key == c_input.private_account_keys[k]
                      commitment_post == Commitment_new(key.npk, UpdatedPostState(i))
                  IN  /\ c_result.output.new_commitments[k] = commitment_post
                      /\ \E output_index \in 0 .. Len(Mask) :
                            c_result.output.ciphertexts[k] =
                                EncryptionScheme_encrypt(UpdatedPostState(i), key.shared_secret,
                                                         commitment_post, output_index)

\* a committed pass whose second account is its first private one, is
\* unclaimed in the program's post-state and gets a nonce it did not have
C10_Witness ==
    /\ Committed
    /\ Len(Mask) = 2 /\ Mask[1] = 0 /\ Mask[2] \in {1, 2}
    /\ ProgramPostStates[2].program_owner = DEFAULT_PROGRAM_ID
    /\ c_input.private_account_nonces[1] # ProgramPostStates[2].nonce

\* the output_index a ciphertext was made with
OutputIndexOf(ciphertext) == ciphertext[2][4]

\* C11: in a committed pass the ciphertext of the k-th private account,
\* counted from 0 over the private accounts only, is made with output_index
\* k, and no two ciphertexts of the pass are made with the same output_index.
C11_OutputIndexCountsPrivate ==
    Committed =>
        /\ Len(c_result.output.ciphertexts) = PrivateCount
        /\ \A i \in 1 .. Len(Mask) :
              Mask[i] \in {1, 2} =>
                  LET k == PrivateIndex(i)
                      key == c_input.private_account_keys[k]
                  IN  c_result.output.ciphertexts[k] =
                          EncryptionScheme_encrypt(
                              UpdatedPostState(i), key.shared_secret,
                              Commitment_new(key.npk, UpdatedPostState(i)), k - 1)
        /\ \A j, k \in 1 .. Len(c_result.output.ciphertexts) :
              j # k => OutputIndexOf(c_result.output.ciphertexts[j])
                          # OutputIndexOf(c_result.output.ciphertexts[k])

\* a committed pass with a public account before a private one, whose
\* ciphertext is made with output_index 0
C11_Witness ==
    /\ Committed
    /\ Len(Mask) = 2 /\ Mask[1] = 0 /\ Mask[2] = 1
    /\ OutputIndexOf(c_result.output.ciphertexts[1]) = 0

\* an account at position i with mask 0 is the PublicIndex(i)-th public one
PublicIndex(i) == MasksBefore({0}, i) + 1

PublicCount == MasksBefore({0}, Len(Mask) + 1)

\* C12: in a committed pass every account with mask 0 has its pre-state in
\* public_pre_states unchanged and, at the same place of public_post_states,
\* the program's post-state with the nonce one higher exactly when the
\* pre-state is authorized and a default owner replaced by the program id;
\* the private outputs and the private inputs number the private accounts.
C12_PublicAccount ==
    Committed =>
        /\ Len(c_result.output.public_pre_states) = PublicCount
        /\ Len(c_result.output.public_post_states) = PublicCount
        /\ \A i \in 1 .. Len(Mask) :
              Mask[i] = 0 =>
                  /\ c_result.output.public_pre_states[PublicIndex(i)] = ProgramPreStates[i]
                  /\ c_result.output.public_post_states[PublicIndex(i)] =
                        [ProgramPostStates[i] EXCEPT
                            !.nonce = IF ProgramPreStates[i].is_authorized THEN @ + 1 ELSE @,
                            !.program_owner =
                                IF @ = DEFAULT_PROGRAM_ID THEN c_input.program_id ELSE @]
        /\ Len(c_result.output.new_nullifiers) = PrivateCount
        /\ Len(c_result.output.new_commitments) = PrivateCount
        /\ Len(c_result.output.ciphertexts) = PrivateCount
        /\ Len(c_input.private_account_nonces) = PrivateCount
        /\ Len(c_input.private_account_keys) = PrivateCount
        /\ Len(c_input.private_account_auth) = MasksBefore({1}, Len(Mask) + 1)

\* the accounts of a pass: the pre-states the loop over the chained calls collects
AccountsOfPass ==
    chained_calls(c_input.receipts, c_input.program_outputs[1], c_input.program_id,
                  <<>>, <<>>, MAX_NUMBER_CHAINED_CALLS).pre_states

\* C13: a pass is committed only if every entry of the visibility mask is
\* 0, 1 or 2 and the mask has one entry for each account.
C13_MaskChecked ==
    Committed =>
        /\ \A i \in 1 .. Len(Mask) : Mask[i] \in {0, 1, 2}
        /\ Len(Mask) = Len(AccountsOfPass)

\* a pass that ends at its second account, whose mask is 3, after a first
\* account that was processed
C13_Witness ==
    /\ c_pc = "panicked"
    /\ Len(Mask) = 2 /\ Mask[1] \in {0, 1, 2} /\ Mask[2] = 3
    /\ c_result.panic = "Invalid visibility mask value"

\* C14: a pass is committed only if private_account_nonces and
\* private_account_keys each have one entry for each mask entry 1 or 2, and
\* private_account_auth has one entry for each mask entry 1: neither fewer
\* nor more.
C14_PrivateInputsCounted ==
    Committed =>
        /\ Len(c_input.private_account_nonces) = PrivateCount
        /\ Len(c_input.private_account_keys) = PrivateCount
        /\ Len(c_input.private_account_auth) = MasksBefore({1}, Len(Mask) + 1)

\* a pass over two private accounts that went through the loop and ends
\* because a third key is left
C14_Witness ==
    /\ c_pc = "panicked"
    /\ Len(Mask) = 2 /\ PrivateCount = 2
    /\ Len(c_input.private_account_nonces) = 2
    /\ Len(c_input.private_account_keys) = 3
    /\ c_result.panic = "Too many private account keys."

\* C15: a pass that is rejected commits nothing: no public state, nullifier,
\* commitment or ciphertext; a pass commits only when every account has its
\* output, and the lists of private inputs have no entry left.
C15_RejectionTotal ==
    /\ c_pc = "panicked" =>
          /\ c_result.panic # ""
          /\ c_result.output = EmptyOutput
    /\ Committed =>
          /\ c_result.panic = ""
          /\ Len(c_result.output.public_pre_states) + Len(c_result.output.new_commitments)
                = Len(AccountsOfPass)
          /\ Len(c_input.private_account_nonces) = Len(c_result.output.new_commitments)
          /\ Len(c_input.private_account_keys) = Len(c_result.output.ciphertexts)
          /\ Len(c_input.private_account_auth) <= Len(c_result.output.new_nullifiers)

\* a pass that went through a public and a private account and is rejected
\* by the first of the checks that follow the loop
C15_Witness ==
    /\ c_pc = "panicked"
    /\ Mask = <<0, 2>>
    /\ c_result.panic = "Too many nonces."
    /\ c_result.output.public_pre_states = <<>>
    /\ c_result.output.new_nullifiers = <<>>

(***************************************************************************)
(* Further properties of the nullifier set.                                *)
(***************************************************************************)
\* C16: get_non_membership_proof of a hash that was never inserted returns,
\* unless the database fails the call, Ok with the current root as second
\* component; that root is None on a tree without inserts.
C16_ProofForAbsent ==
    (t_call.op = "get_non_membership_proof" /\ t_call.hashes[1] \notin inserted)
        => \/ t_result = Err("db")
           \/ /\ ~ t_result.is_err
              /\ t_result.value[2] = curr_root
              /\ inserted = {} => t_result.value[2] = None

\* a proof for a hash never inserted, on a tree that holds another hash
C16_Witness ==
    /\ t_call.op = "get_non_membership_proof"
    /\ t_call.hashes[1] \notin inserted
    /\ inserted # {}
    /\ ~ t_result.is_err
    /\ t_result.value[2] = curr_root
    /\ curr_root # None

\* C17: the error get_non_membership_proof(s) returns for a hash that is in
\* the tree is of another kind than the error of a failing database.
C17_MemberErrorDistinct ==
    (ProofCall /\ t_result.is_err /\ t_result.err # "db")
        => Errors_kind(t_result) # Errors_kind(Err("db"))

\* C18: search_item_inclusion of h returns, unless the database fails the
\* call, true exactly when h was part of an earlier insert that returned Ok;
\* and no call makes a hash that is found under curr_root not found.
C18_AppendOnly ==
    /\ [](  (t_call.op = "search_item_inclusion" /\ ~ t_result.is_err)
              => t_result.value = (t_call.hashes[1] \in inserted))
    /\ [][\A h \in Hashes :
              search_item_inclusion(curr_root, h, FALSE).value
                  => search_item_inclusion(curr_root', h, FALSE).value]_vars

\* a hash is found after two hashes were inserted
C18_Witness ==
    /\ t_call.op = "search_item_inclusion"
    /\ ~ t_result.is_err
    /\ t_result.value
    /\ Cardinality(inserted) = 2

\* C19: an insert_item or insert_items that returns an error leaves
\* curr_root and leafs as they were, and every hash is found under curr_root
\* after it exactly when it was found before.
C19_FailedInsertChangesNothing ==
    [][(t_call'.op \in {"insert_item", "insert_items"} /\ t_result'.is_err)
          => /\ curr_root' = curr_root
             /\ leafs' = leafs
             /\ \A h \in Hashes :
                   search_item_inclusion(curr_root', h, FALSE)
                       = search_item_inclusion(curr_root, h, FALSE)]_vars

\* a batch of two hashes failed on a tree that holds one of them, and the
\* other is not in the tree
C19_Witness ==
    /\ t_call.op = "insert_items"
    /\ Len(t_call.hashes) = 2
    /\ t_result.is_err
    /\ t_call.hashes[1] \in inserted
    /\ t_call.hashes[2] \notin inserted
    /\ search_item_inclusion(curr_root, t_call.hashes[2], FALSE) = Ok(FALSE)

(***************************************************************************)
(* Properties of the MerkleTree.                                           *)
(***************************************************************************)
\* C20: for every value of the tree, the digest of the value along the
\* (index, path) get_authentication_path_for returns is the root of the
\* tree; for a value that is not in the tree no path is returned.
C20_PathLeadsToRoot ==
    \A value \in Values :
        LET found == get_authentication_path_for(MerkleTree, value)
        IN  IF value \in DOMAIN index_map
            THEN /\ found # None
                 /\ compute_digest_for_path(value, found[1]) = root(MerkleTree)
            ELSE found = None

\* the path of the fifth value of a tree that grew to capacity 8
C20_Witness ==
    /\ m_call.op = "get_authentication_path_for"
    /\ Cardinality(DOMAIN index_map) = 5
    /\ capacity = 8
    /\ m_result # None
    /\ m_result[1].index = 4
    /\ Len(m_result[1].path) = 3
    /\ compute_digest_for_path(m_call.value, m_result[1]) = root(MerkleTree)

C22_RoundTrip ==
    (/\ n_call.op = "Ciphertext::decrypt"
     /\ n_call.shared_secret = n_call.sent.shared_secret
     /\ n_call.npk = n_call.sent.npk
     /\ n_call.commitment = n_call.sent.commitment
     /\ n_call.output_index = n_call.sent.output_index)
        => n_result = Some(n_call.sent.account)

\* an account with data and a balance came back from its ciphertext, which
\* was made for an output index other than the first
C22_Witness ==
    /\ n_call.op = "Ciphertext::decrypt"
    /\ n_call.shared_secret = n_call.sent.shared_secret
    /\ n_call.npk = n_call.sent.npk
    /\ n_call.commitment = n_call.sent.commitment
    /\ n_call.output_index = n_call.sent.output_index
    /\ n_call.output_index = 1
    /\ n_call.sent.account.data # <<>>
    /\ n_call.sent.account.balance = 1
    /\ n_result = Some(n_call.sent.account)

(***************************************************************************)
(* Keys and chain indexes.                                                 *)
(***************************************************************************)
\* C23: key agreement is symmetric: the shared secret the sender computes
\* from the ephemeral secret key and the receiver's incoming viewing public
\* key equals the shared secret the receiver computes from the ephemeral
\* public key and its own viewing secret key.
C23_KeyAgreementSymmetric ==
    k_call.op = "key_agreement" => k_result.sender = k_result.receiver

\* the key nodes derived so far
DerivedIndexes == DOMAIN key_map

KeyMaterial(node) == <<node.ssk, node.nsk, node.isk, node.ovk, node.npk, node.ipk, node.ccc>>

ExpectedDigit(word, position) ==
    LET byte == le_bytes(word, 4)[((position - 1) \div 2) + 1]
    IN  HexAlphabet[(IF position % 2 = 1 THEN byte \div HexRadix ELSE byte % HexRadix) + 1]

\* C25: the text encoding of a chain index round-trips through from_str;
\* the root encodes to the empty string and the empty string decodes to the
\* root; each component is written as its 4 little-endian bytes in hex; a
\* hex string whose decoded length is not a multiple of 4 is rejected.
C25_TextEncoding ==
    /\ k_call.op = "to_string" =>
          /\ k_result.parsed = Ok(k_call.chain)
          /\ (k_call.chain = <<>> <=> k_result.string = <<>>)
          /\ Len(k_result.string) = 8 * Len(k_call.chain)
          /\ \A i \in 1 .. Len(k_call.chain), position \in 1 .. 8 :
                k_result.string[8 * (i - 1) + position] = ExpectedDigit(k_call.chain[i], position)
    /\ k_call.op = "from_str" =>
          /\ k_call.s = <<>> => k_result = Ok(<<>>)
          /\ (/\ \A i \in 1 .. Len(k_call.s) : k_call.s[i] \in HexDigits
              /\ Len(k_call.s) % 2 = 0
              /\ (Len(k_call.s) \div 2) % 4 # 0) => k_result.is_err

\* a chain index of two components, one of them above a byte, came back
\* from its text
C25_Witness ==
    /\ k_call.op = "to_string"
    /\ Len(k_call.chain) = 2
    /\ k_call.chain[1] = ByteModulus + 1
    /\ k_result.parsed = Ok(k_call.chain)

\* C26: for a non-empty chain index c, next_in_line has the length of c,
\* the components of c in every position but the last, and the last
\* component of c plus one; n_th_child(i) keeps the components and appends i.
C26_NextInLine ==
    /\ (k_call.op = "next_in_line" /\ k_call.chain # <<>>) =>
          /\ ~ k_result.panic
          /\ Len(k_result.value) = Len(k_call.chain)
          /\ \A i \in 1 .. Len(k_call.chain) - 1 : k_result.value[i] = k_call.chain[i]
          /\ k_result.value[Len(k_call.chain)] = k_call.chain[Len(k_call.chain)] + 1
    /\ k_call.op = "n_th_child_index" =>
          /\ Len(k_result) = Len(k_call.chain) + 1
          /\ \A i \in 1 .. Len(k_call.chain) : k_result[i] = k_call.chain[i]
          /\ k_result[Len(k_result)] = k_call.child_id

(***************************************************************************)
(* Public transactions.                                                    *)
(***************************************************************************)
\* the transaction of the last call, and the same after the step
LastTx == s_tx[1]

NextTx == s_tx'[1]

Elements(seq) == {seq[i] : i \in 1 .. Len(seq)}

\* the call of the step returned Ok(())
Succeeds == s_tx' # None /\ s_calls' = s_calls + 1 /\ s_result' = Ok(<<>>)

\* the call of the step returned an error
Fails == s_tx' # None /\ s_calls' = s_calls + 1 /\ s_result'.is_err

\* C27: if transition_from_public_transaction returns an error, the public
\* state is unchanged: every account keeps its balance, nonce, owner and
\* data, and no signer nonce is incremented.
C27_FailedTransitionChangesNothing ==
    [][Fails => public_state' = public_state]_vars

\* a transaction with a signer was refused for the behaviour of the program
C27_Witness ==
    /\ s_tx # None
    /\ s_result = NssaError_InvalidProgramBehavior
    /\ signer_addresses(LastTx) # <<>>

\* C28: a public transaction is rejected with InvalidInput unless every
\* signer's nonce in the message equals the signer's nonce in the state; it
\* is rejected too when the number of nonces differs from the number of
\* signatures or when the address list has a duplicate.
C28_NonceMismatchRejected ==
    [][(/\ s_tx' # None
        /\ s_calls' = s_calls + 1
        /\ \/ Cardinality(Elements(NextTx.message.addresses)) # Len(NextTx.message.addresses)
           \/ Len(NextTx.message.nonces) # Len(signer_addresses(NextTx))
           \/ \E k \in 1 .. Len(signer_addresses(NextTx)) :
                  /\ k <= Len(NextTx.message.nonces)
                  /\ public_state[signer_addresses(NextTx)[k]].nonce # NextTx.message.nonces[k])
            => s_result' = NssaError_InvalidInput]_vars

\* a transaction with valid signatures, distinct addresses, a nonce for
\* each signature and a known program was refused for a nonce that is not
\* the signer's
C28_Witness ==
    /\ s_tx # None
    /\ s_result = NssaError_InvalidInput
    /\ LastTx.witness_set.valid
    /\ LastTx.message.program_id \in builtin_programs
    /\ Cardinality(Elements(LastTx.message.addresses)) = Len(LastTx.message.addresses)
    /\ Len(LastTx.message.nonces) = Len(signer_addresses(LastTx))
    /\ \E k \in 1 .. Len(signer_addresses(LastTx)) :
          public_state[signer_addresses(LastTx)[k]].nonce # LastTx.message.nonces[k]

\* C29: after a successful transition the nonce of every signer is one
\* higher than before, the nonce of every account that did not sign is
\* unchanged, and every account that is neither named in the transaction
\* nor a signer is unchanged in all fields.
C29_SuccessfulTransition ==
    [][Succeeds =>
        \A address \in Addresses :
            /\ address \in Elements(signer_addresses(NextTx)) =>
                  public_state'[address].nonce = public_state[address].nonce + 1
            /\ address \notin Elements(signer_addresses(NextTx)) =>
                  public_state'[address].nonce = public_state[address].nonce
            /\ (/\ address \notin Elements(signer_addresses(NextTx))
                /\ address \notin Elements(NextTx.message.addresses)) =>
                  public_state'[address] = public_state[address]]_vars

\* C30: inserting a value that is already in a MerkleTree returns false and
\* leaves the tree as it is, so that the tree after any sequence of inserts
\* has the indexes, the nodes and the root of the tree after the sequence of
\* the first occurrences, where the i-th distinct value has index i (counted
\* from 0); its root is the root of the tree built from these values under
\* any capacity at creation, and of MerkleTree::new of the sequence
C30_InsertIdempotent ==
    LET firsts == deduplicated(m_inserted, 1, <<>>)
        last == Len(m_inserted)
    IN  /\ MerkleTree = insert_all(with_capacity(m_created), firsts, 1)
        /\ DOMAIN index_map = {firsts[i] : i \in 1 .. Len(firsts)}
        /\ \A i \in 1 .. Len(firsts) : index_map[firsts[i]] = i - 1
        /\ \A n \in 0 .. MaxInitialCapacity :
               root(insert_all(with_capacity(n), firsts, 1)) = root(MerkleTree)
        /\ root(MerkleTree_new(m_inserted)) = root(MerkleTree)
        /\ m_call.op = "insert" =>
               m_result = Some(\A k \in 1 .. last - 1 : m_inserted[k] # m_inserted[last])

\* a value is inserted again into a tree that has grown beyond the capacity
\* it was created with: the call returns false
C30_Witness ==
    /\ m_call.op = "insert"
    /\ m_result = Some(FALSE)
    /\ Cardinality(DOMAIN index_map) >= 3
    /\ capacity > with_capacity(m_created).capacity
    /\ m_inserted[Len(m_inserted)] # m_inserted[Len(m_inserted) - 1]

\* the data followed by zeros up to PRIVATE_BLOB_SIZE bytes
Padded(data) == [idx \in 1 .. PRIVATE_BLOB_SIZE |-> IF idx <= Len(data) THEN data[idx] ELSE 0]

\* C31: try_produce_blob_from_fit_vec and try_produce_blob_from_fit_slice
\* return Ok of the input padded with zeros for every input of at most
\* PRIVATE_BLOB_SIZE bytes and an error, without a panic, for every longer
\* input; write_num_bytes_append and write_num_bytes_rewrite return Ok for
\* every byte sequence that is not empty
C31_BlobFromFit ==
    /\ b_call.op \in {"try_produce_blob_from_fit_vec", "try_produce_blob_from_fit_slice"} =>
           IF Len(b_call.data) <= PRIVATE_BLOB_SIZE
           THEN b_result = Ok(Padded(b_call.data))
           ELSE b_result.is_err
    /\ b_call.op \in {"write_num_bytes_append", "write_num_bytes_rewrite"} =>
           (b_call.data # <<>> => b_result # Panicking /\ ~ b_result.is_err)

\* C32: the circuit commits an output only if validate_execution returned
\* true for the program output it read, under the program id of the pass, and
\* then the balances of the pre-states and of the post-states of the pass
\* have the same total
C32_ValidatedAndConserving ==
    c_pc = "committed" =>
        LET program_output == c_input.program_outputs[1]
        IN  /\ validate_execution(program_output.pre_states, program_output.post_states,
                                  c_input.program_id) = "true"
            /\ NatSum([i \in 1 .. Len(program_output.pre_states) |->
                          program_output.pre_states[i].account.balance], 1)
                 = NatSum([i \in 1 .. Len(program_output.post_states) |->
                              program_output.post_states[i].balance], 1)

RECURSIVE PrivateUpTo(_, _)
\* how many of the first i entries of a visibility mask are 1 or 2: the
\* position of the nonce and of the keys of a private account at i
PrivateUpTo(visibility_mask, i) ==
    IF i = 0 THEN 0
    ELSE PrivateUpTo(visibility_mask, i - 1)
             + (IF visibility_mask[i] \in {1, 2} THEN 1 ELSE 0)

\* the pre-states of a pass that follows no chained call
PassPreStates == c_input.program_outputs[1].pre_states

\* the account at i has an account id other than the one of its npk
IdMismatch(i) ==
    /\ c_input.visibility_mask[i] \in {1, 2}
    /\ PrivateUpTo(c_input.visibility_mask, i) <= Len(c_input.private_account_keys)
    /\ PassPreStates[i].account_id
           # AccountId_from(c_input.private_account_keys[
                                 PrivateUpTo(c_input.visibility_mask, i)].npk)

\* C33: a pass commits only if the account id of the pre-state of every
\* private account (mask 1 or 2) is the account id derived from the npk
\* handed in for that account; a pass that ends with "AccountId mismatch" has
\* an account where the two differ
C33_AccountIdChecked ==
    /\ c_pc = "committed" =>
           \A i \in 1 .. Len(c_input.visibility_mask) : ~ IdMismatch(i)
    /\ c_result.panic = "AccountId mismatch" =>
           \E i \in 1 .. Len(c_input.visibility_mask) :
               i <= Len(PassPreStates) /\ IdMismatch(i)

\* a committed pass with an authenticated and a new private account
C33_Witness ==
    /\ c_pc = "committed"
    /\ \E i, j \in 1 .. Len(c_input.visibility_mask) :
           c_input.visibility_mask[i] = 1 /\ c_input.visibility_mask[j] = 2

\* C34: the nullifiers of a committed pass are pairwise distinct
C34_NullifiersDistinct ==
    c_pc = "committed" =>
        \A i, j \in 1 .. Len(c_result.output.new_nullifiers) :
            i # j => c_result.output.new_nullifiers[i][1] # c_result.output.new_nullifiers[j][1]

RECURSIVE AuthenticatedUpTo(_, _)
\* how many of the first i entries of a visibility mask are 1: the position
\* of the nsk and of the membership proof of an authenticated account at i
AuthenticatedUpTo(visibility_mask, i) ==
    IF i = 0 THEN 0
    ELSE AuthenticatedUpTo(visibility_mask, i - 1)
             + (IF visibility_mask[i] = 1 THEN 1 ELSE 0)

\* the npk, the nsk and the nullifier of the private account at i of a
\* committed pass
NpkAt(i) == c_input.private_account_keys[PrivateUpTo(c_input.visibility_mask, i)].npk

AuthAt(i) == c_input.private_account_auth[AuthenticatedUpTo(c_input.visibility_mask, i)]

NullifierAt(i) == c_result.output.new_nullifiers[PrivateUpTo(c_input.visibility_mask, i)][1]

\* C35: in a committed pass the nullifier of an authenticated private account
\* (mask 1) is the update nullifier of the commitment of (npk, pre-state
\* account) under nsk, so that two accounts with the same npk, pre-state
\* account and nsk have the same nullifier whatever their nonces, post-states,
\* membership proofs, shared secrets and positions are; the nullifier of a new
\* private account (mask 2) is the initialization nullifier of its npk
C35_NullifierFunction ==
    c_pc = "committed" =>
        /\ \A i \in 1 .. Len(c_input.visibility_mask) :
               /\ c_input.visibility_mask[i] = 1 =>
                      NullifierAt(i) = Nullifier_for_account_update(
                                           Commitment_new(NpkAt(i), PassPreStates[i].account),
                                           AuthAt(i).nsk)
               /\ c_input.visibility_mask[i] = 2 =>
                      NullifierAt(i) = Nullifier_for_account_initialization(NpkAt(i))
        /\ \A i, j \in 1 .. Len(c_input.visibility_mask) :
               /\ c_input.visibility_mask[i] = 1 /\ c_input.visibility_mask[j] = 1
               /\ NpkAt(i) = NpkAt(j) /\ AuthAt(i).nsk = AuthAt(j).nsk
               /\ PassPreStates[i].account = PassPreStates[j].account
               => NullifierAt(i) = NullifierAt(j)

\* a committed pass that spends the same private account state at two
\* positions, with different post-states, nonces, proofs and shared secrets
C35_Witness ==
    /\ c_pc = "committed"
    /\ \E i, j \in 1 .. Len(c_input.visibility_mask) :
           /\ i # j
           /\ c_input.visibility_mask[i] = 1 /\ c_input.visibility_mask[j] = 1
           /\ NpkAt(i) = NpkAt(j) /\ AuthAt(i).nsk = AuthAt(j).nsk
           /\ PassPreStates[i].account = PassPreStates[j].account
           /\ c_input.program_outputs[1].post_states[i] # c_input.program_outputs[1].post_states[j]
           /\ AuthAt(i).membership_proof # AuthAt(j).membership_proof
           /\ c_input.private_account_nonces[PrivateUpTo(c_input.visibility_mask, i)]
                  # c_input.private_account_nonces[PrivateUpTo(c_input.visibility_mask, j)]
           /\ NullifierAt(i) = NullifierAt(j)

\* the nullifiers recorded in a leafs index
LeafNullifiers(leavs) ==
    {leavs[block_id].txs[tx_id].nullifiers[nullifier_id] :
        <<block_id, tx_id, nullifier_id>> \in
            {ids \in (0 .. MaxBlockId) \X (0 .. MaxTxId) \X (0 .. MaxNullifierId) :
                /\ ids[1] \in DOMAIN leavs
                /\ ids[2] \in DOMAIN leavs[ids[1]].txs
                /\ ids[3] \in DOMAIN leavs[ids[1]].txs[ids[2]].nullifiers}}

\* C36: the nullifiers recorded in leafs are the members of the tree: every
\* nullifier of an insert_item or insert_items that returned Ok is in leafs,
\* the first one of a block or of a transaction included
C36_LeafsRecordMembers ==
    LeafNullifiers(leafs) = Monotree_keys(curr_root)

\* the balances of all accounts of a public state together
TotalBalance(state) ==
    NatSum([address \in 1 .. MaxAddress |-> get_account_by_address(state, address).balance], 1)

\* C37: no call of transition_from_public_transaction, successful or not,
\* changes the sum of the balances of all accounts, which therefore stays
\* the total of the genesis balances
C37_BalanceConserved ==
    [][TotalBalance(public_state') = TotalBalance(public_state)]_vars

C39_AllOrNothing ==
    [][(updater.pc = "insert" /\ updater'.pc = "failed") => storage' = storage]_vars

UpdaterInside == updater.pc \in {"insert", "release"}

ReaderInside == reader.pc \in {"get_tx", "release"}

HasBlock(store, block_id) == \E block \in store.block_store : block.block_id = block_id

\* C40: in the updater every mutation of the stores happens while the
\* storage mutex is held, so no insert interleaves with a read or with
\* another insert; curr_height is set to n only after block n was inserted
\* successfully; blocks are inserted in consecutive id order, none skipped
\* or inserted twice; every block with id in (genesis, curr_height] is in
\* the node storage.
C40_UpdaterUnderMutex ==
    /\ [](~ (UpdaterInside /\ ReaderInside))
    /\ [](UpdaterInside => storage_lock = "updater")
    /\ [](ReaderInside => storage_lock = "reader")
    /\ [][storage' # storage => (UpdaterInside /\ storage_lock = "updater")]_vars
    /\ [][curr_height' # curr_height =>
             /\ curr_height' = curr_height + 1
             /\ inserted_blocks # <<>>
             /\ inserted_blocks[Len(inserted_blocks)] = curr_height'
             /\ HasBlock(storage, curr_height')]_vars
    /\ [](\A i \in 1 .. Len(inserted_blocks) : inserted_blocks[i] = GenesisId + i)
    /\ [](\A block_id \in GenesisId + 1 .. curr_height : HasBlock(storage, block_id))

\* the updater, two blocks on, waits for the mutex while a reader holds it
C40_Witness ==
    /\ curr_height = GenesisId + 2
    /\ updater.pc = "lock"
    /\ storage_lock = "reader"
    /\ reader.pc = "get_tx"

====
